---- MODULE Spec2Model ----
(***************************************************************************)
(* A model of the peaque framework's dev-server core:                      *)
(*   - the cross-origin guard (http/cross-origin-protection.ts and         *)
(*     http/csrf-protection-helpers.ts),                                   *)
(*   - the persistent transform cache (DiskCache),                         *)
(*   - the dev server: request dispatch, server-action RPC, the source     *)
(*     watcher and its HMR broadcasts.                                     *)
(* Each subsystem has its own specification (SpecGuard, SpecCache,         *)
(* SpecDev); the variables of the other subsystems stay at their idle      *)
(* values.                                                                 *)
(***************************************************************************)
EXTENDS Integers, Sequences, FiniteSets, TLC

VARIABLES
  \* ---- cross-origin guard
  trustedOrigins,   \* CrossOriginProtection.trustedOrigins
  bypassPatterns,   \* CrossOriginProtection.bypassPatterns
  gReq,             \* the request the middleware last handled (NoReq: none)
  gCode,            \* response status set by the middleware (0: not set)
  gBody,            \* response body sent by the middleware (NoBody: none)
  gNextCalls,       \* how many times the middleware called next(req)
  \* ---- DiskCache
  cacheVersion,     \* DiskCache.cacheVersion of the running process
  constructed,      \* the DiskCache constructor has run in this process
  metadataCache,    \* DiskCache.metadataCache: key -> hash (NoHash: no entry)
  dir,              \* the cache directory: entry name -> content (Absent: none)
  indexJson,        \* the cache directory's index.json
  calls,            \* the cacheByHash calls in flight, by caller
  lastOp,           \* the latest operation on the cache and what it did
  ops,              \* how many operations on the cache have been invoked
  \* ---- dev server
  watcherKind,      \* which DevServer watches: "parcel" or "chokidar"
  files,            \* the files under src/ on disk
  events,           \* watcher events not yet handed to the callback
  eventCount,       \* how many file-system events have happened
  frontendState,    \* DevServer.frontendState
  backendRouter,    \* DevServer.backendRouter
  jobsUpdates,      \* how many times startOrUpdateJobs ran for the watcher
  hmrFrames,        \* the frames broadcast to the HMR peers, in order
  delivered,        \* the events the watcher callback has handled, in order
  inflight,         \* the request being served (requests share no state but
                    \* the two routers, so one is followed at a time)
  \* ---- dev server life cycle
  srcExists,        \* the project has a src directory
  startupExists,    \* src/startup.ts exists
  middlewareExists, \* src/middleware.ts exists
  lifePc,           \* where the constructor, start() and stop() stand
  routersBuilt,     \* frontendState and backendRouter have been assigned
  startupDone,      \* the startup module has been loaded to completion
  jobsState,        \* the jobs runner: "idle", "started" or "stopped"
  watcherState,     \* the watcher subscription
  listenerState,    \* the listening socket of the HTTP server
  middlewareLoad,   \* the load of the global middleware started by the constructor
  peers,            \* the WebSocket peers connected to /hmr
  peersClosed,      \* the peers have been closed at shutdown
  lastServed,       \* how the latest request was handled
  \* ---- route tree builder
  routeConfig,      \* the route-file configuration: "page" or "api"
  routeDisk,        \* the files of each directory under the router's root
  routeTree,        \* the node buildRouter made for each directory
  \* ---- head descriptors
  mergeParent,      \* the parent argument of mergeHead
  mergeChild,       \* the child argument of mergeHead
  mergeResult,      \* what mergeHead returned (NotMerged: not called yet)
  \* ---- production build
  prodPc,           \* the step the production build has reached
  prodRouter,       \* the page router after componentifyRouter
  headStacks,       \* extractHeadStacks' map: stack key -> head stack, html
  registrations,    \* the GET routes of the generated backend: directory -> key
  backendCode,      \* the texts generateBackendServerCode returned, in order
  buildClock,       \* the wall clock of the build, in half seconds
  \* ---- jobs of the generated backend
  jobsPc,           \* "idle", "scheduled" (startJobs ran) or "dead" (process gone)
  blocking,         \* per subscription: the cron library is inside the callback
  unsettled,        \* per subscription: runJob promises not yet settled
  ticks,            \* ticks fired so far
  raised,           \* errors runJob raised, by throw or by rejection
  logged,           \* errors logged with the job's display name
  \* ---- precompressed assets
  assets,           \* the asset folder: path -> file (mtime, content) or NoAsset
  now,              \* the clock that stamps a written file
  lastWrites,       \* the paths the last run of precompressAssets wrote
  quiet,            \* a run has finished and no source file changed since
  rerun,            \* the last run started from a quiet folder
  \* ---- generated RPC route
  rpcVerdict,       \* what the generated RPC route did with the request gReq
  \* ---- MockFileSystem
  mockEntries,      \* the entries map: path -> entry record
  \* ---- DiskCache, history
  fileOrigin        \* per cache file: the key whose producer made its content

guardVars == <<trustedOrigins, bypassPatterns, gReq, gCode, gBody, gNextCalls>>
cacheVars == <<cacheVersion, constructed, metadataCache, dir, indexJson, calls, lastOp, ops>>

devVars ==
  <<watcherKind, files, events, eventCount, frontendState, backendRouter,
    jobsUpdates, hmrFrames, delivered, inflight>>

lifeVars ==
  <<srcExists, startupExists, middlewareExists, lifePc, routersBuilt, startupDone,
    jobsState, watcherState, listenerState, middlewareLoad, peers, peersClosed,
    lastServed>>

routeVars == <<routeConfig, routeDisk, routeTree>>

headVars == <<mergeParent, mergeChild, mergeResult>>

buildVars == <<prodPc, prodRouter, headStacks, registrations, backendCode, buildClock>>

jobVars == <<jobsPc, blocking, unsettled, ticks, raised, logged>>

assetVars == <<assets, now, lastWrites, quiet, rerun>>

rpcVars == <<rpcVerdict>>

mockVars == <<mockEntries>>

histVars == <<fileOrigin>>

prodVars == <<headVars, buildVars, jobVars, assetVars, rpcVars, mockVars, histVars>>

vars == <<guardVars, cacheVars, devVars, lifeVars, routeVars, prodVars>>

\* ------------------------------------------------------------------------
\* Shared values
\* ------------------------------------------------------------------------

\* requestHeader() of a header the request does not carry (JS undefined)
NoHeader == "<undefined>"
NoBody == "<no body>"
\* extractHost's null
Null == "<null>"

SafeMethods == {"GET", "HEAD", "OPTIONS"}
Methods == SafeMethods \cup {"POST", "DELETE"}

SecFetchSiteValues == {NoHeader, "", "same-origin", "none", "cross-site", "same-site"}
OriginValues == {NoHeader, "", "https://app.test", "https://evil.test", "not a url"}
HostValues == {NoHeader, "app.test", "evil.test"}
\* origins an application may put on the trusted list
TrustableOrigins == {"https://evil.test", "not a url"}

\* Request paths are sequences of path segments; a bypass pattern is an
\* anchored regular expression /^\/seg\/seg/ given by the segments it
\* matches at the start of the path.
RpcMFPath == <<"api", "__rpc", "m", "f">>
WebhookPath == <<"api", "webhook", "x">>
GuardPaths == {RpcMFPath, WebhookPath}
WebhookPattern == <<"api", "webhook">>
GuardPatterns == {WebhookPattern}

IsPrefix(p, s) == Len(p) <= Len(s) /\ SubSeq(s, 1, Len(p)) = p

\* pattern.test(path) for an anchored prefix pattern
PatternTest(pattern, path) == IsPrefix(pattern, path)

\* new URL(origin).host, or null when the URL constructor throws
extractHost(origin) ==
  CASE origin = "https://app.test" -> "app.test"
    [] origin = "https://evil.test" -> "evil.test"
    [] OTHER -> Null

\* gReq before the middleware has handled any request
NoReq ==
  [method |-> "<none>", secFetchSite |-> NoHeader, origin |-> NoHeader,
   host |-> NoHeader, path |-> <<>>]

GuardRequests ==
  [method : Methods, secFetchSite : SecFetchSiteValues, origin : OriginValues,
   host : HostValues, path : GuardPaths]

\* ------------------------------------------------------------------------
\* CrossOriginProtection
\* ------------------------------------------------------------------------

ForbiddenCrossOrigin == "Forbidden: Cross-origin request rejected"
ForbiddenInvalidOrigin == "Forbidden: Invalid origin header"
ForbiddenOlderBrowser == "Forbidden: Cross-origin request rejected from older browser"

\* CrossOriginProtection.isRequestExempt
isRequestExempt(req, patterns, trusted) ==
  \/ \E pattern \in patterns : PatternTest(pattern, req.path)
  \/ /\ req.origin # NoHeader
     /\ req.origin # ""
     /\ req.origin \in trusted

GuardPass == [code |-> 0, body |-> NoBody, next |-> 1]
GuardReject(msg) == [code |-> 403, body |-> msg, next |-> 0]

\* getMiddleware with "same-site" accepted like "same-origin"
getMiddlewareSameSite(req, patterns, trusted) ==
  IF req.method \in SafeMethods THEN GuardPass
  ELSE IF req.secFetchSite # NoHeader /\ req.secFetchSite # "" THEN
    IF req.secFetchSite \in {"same-origin", "none", "same-site"} THEN GuardPass
    ELSE IF isRequestExempt(req, patterns, trusted) THEN GuardPass
    ELSE GuardReject(ForbiddenCrossOrigin)
  ELSE GuardPass

\* The middleware returned by CrossOriginProtection.getMiddleware: what it
\* does to the response and how often it calls next.
getMiddleware(req, patterns, trusted) ==
  IF req.method \in SafeMethods THEN GuardPass
  ELSE IF req.secFetchSite # NoHeader /\ req.secFetchSite # "" THEN
    IF req.secFetchSite = "same-origin" \/ req.secFetchSite = "none" THEN GuardPass
    ELSE IF isRequestExempt(req, patterns, trusted) THEN GuardPass
    ELSE GuardReject(ForbiddenCrossOrigin)
  ELSE IF req.origin = NoHeader \/ req.origin = "" THEN GuardPass
  ELSE IF extractHost(req.origin) = Null THEN
    IF isRequestExempt(req, patterns, trusted) THEN GuardPass
    ELSE GuardReject(ForbiddenInvalidOrigin)
  ELSE IF extractHost(req.origin) = req.host THEN GuardPass
  ELSE IF isRequestExempt(req, patterns, trusted) THEN GuardPass
  ELSE GuardReject(ForbiddenOlderBrowser)

\* the mutation: a same-site request is let through
checkCsrfProtectionSameSite(req) ==
  IF req.method \in SafeMethods THEN TRUE
  ELSE IF req.secFetchSite # NoHeader /\ req.secFetchSite # "" THEN
    req.secFetchSite \in {"same-origin", "none", "same-site"}
  ELSE IF req.origin = NoHeader \/ req.origin = "" THEN TRUE
  ELSE IF extractHost(req.origin) = Null THEN FALSE
  ELSE extractHost(req.origin) = req.host

\* checkCsrfProtection: the guard as a boolean, without bypasses
checkCsrfProtection(req) ==
  IF req.method \in SafeMethods THEN TRUE
  ELSE IF req.secFetchSite # NoHeader /\ req.secFetchSite # "" THEN
    req.secFetchSite = "same-origin" \/ req.secFetchSite = "none"
  ELSE IF req.origin = NoHeader \/ req.origin = "" THEN TRUE
  ELSE IF extractHost(req.origin) = Null THEN FALSE
  ELSE extractHost(req.origin) = req.host

NoVerdict == [code |-> 0, body |-> NoBody, called |-> FALSE]

\* The POST /api/__rpc/<i>/<name> handler of the generated backend: the
\* response it sends and whether it calls the server function
rpcRoute(req) ==
  IF ~checkCsrfProtection(req)
  THEN [code |-> 403, body |-> ForbiddenCrossOrigin, called |-> FALSE]
  ELSE [code |-> 200, body |-> "superjson", called |-> TRUE]

GuardInit ==
  /\ trustedOrigins = {}
  /\ bypassPatterns = {}
  /\ gReq = NoReq
  /\ gCode = 0
  /\ gBody = NoBody
  /\ gNextCalls = 0

\* CrossOriginProtection.addTrustedOrigin, while the guard is being set up
addTrustedOrigin ==
  \E origin \in TrustableOrigins :
    /\ gReq = NoReq
    /\ origin \notin trustedOrigins
    /\ trustedOrigins' = trustedOrigins \cup {origin}
    /\ UNCHANGED <<bypassPatterns, gReq, gCode, gBody, gNextCalls, cacheVars, devVars, lifeVars, routeVars, prodVars>>

\* CrossOriginProtection.addBypassPattern, while the guard is being set up
addBypassPattern ==
  \E pattern \in GuardPatterns :
    /\ gReq = NoReq
    /\ pattern \notin bypassPatterns
    /\ bypassPatterns' = bypassPatterns \cup {pattern}
    /\ UNCHANGED <<trustedOrigins, gReq, gCode, gBody, gNextCalls, cacheVars, devVars, lifeVars, routeVars, prodVars>>

\* One request through the middleware, on a fresh response.
GuardHandle ==
  \E req \in GuardRequests :
    LET out == getMiddleware(req, bypassPatterns, trustedOrigins) IN
      /\ gReq = NoReq
      /\ gReq' = req
      /\ gCode' = out.code
      /\ gBody' = out.body
      /\ gNextCalls' = out.next
      /\ rpcVerdict' = rpcRoute(req)
      /\ UNCHANGED <<trustedOrigins, bypassPatterns, cacheVars, devVars, lifeVars, routeVars>>
      /\ UNCHANGED <<headVars, buildVars, jobVars, assetVars, mockVars, histVars>>

\* The response is flushed; the next request comes with a fresh response.
GuardRequestDone ==
  /\ gReq # NoReq
  /\ gReq' = NoReq
  /\ gCode' = 0
  /\ gBody' = NoBody
  /\ gNextCalls' = 0
  /\ rpcVerdict' = NoVerdict
  /\ UNCHANGED <<trustedOrigins, bypassPatterns, cacheVars, devVars, lifeVars, routeVars>>
  /\ UNCHANGED <<headVars, buildVars, jobVars, assetVars, mockVars, histVars>>

GuardNext == addTrustedOrigin \/ addBypassPattern \/ GuardHandle \/ GuardRequestDone

\* ------------------------------------------------------------------------
\* DiskCache
\* ------------------------------------------------------------------------

\* Concurrent callers of cacheByHash
MaxCalls == 2
\* Operations invoked on the cache in one run: cacheByHash calls, clears
\* and restarts
MaxOps == 2
Callers == 1..MaxCalls

\* The versions a DiskCache is constructed with: the constructor's default
\* and the one the dev server passes.
DefaultCacheVersion == "1"
DevServerCacheVersion == "1.0"
CacheVersions == {DefaultCacheVersion, DevServerCacheVersion}

\* Keys and hashes are strings, modelled as sequences of characters.
KeyAB == <<"a", "/", "b">>
KeyA_B == <<"a", "_", "b">>
CacheKeys == {KeyAB, KeyA_B}

\* hash.substring(0, 12)
ShortHashLen == 12
\* a hash longer than the file name keeps of it, and a short one
HashA1 == [i \in 1..ShortHashLen |-> "a"] \o <<"1">>
HashC == <<"c">>
CacheHashes == {HashA1, HashC}
\* metadataCache.get(key) of a key with no entry
NoHash == <<"<no entry>">>

\* What a producer may return
CacheValues == {"v1", "v2"}
NoValue == "<none>"
Absent == "<absent>"
Directory == "<directory>"

\* The characters /[a-zA-Z0-9@\-_]/ accepts, among those the keys use
SafeKeyChars == {"a", "b", "@", "-", "_"}

\* key.replace(/[^a-zA-Z0-9@\-_]/g, "_")
safeKey(key) == [i \in 1..Len(key) |-> IF key[i] \in SafeKeyChars THEN key[i] ELSE "_"]

\* hash.substring(0, 12)
shortHash(hash) == SubSeq(hash, 1, IF Len(hash) < ShortHashLen THEN Len(hash) ELSE ShortHashLen)

\* DiskCache.getCacheFilePath: the file's name in the cache directory,
\* `${safeKey}.${shortHash}.cache`
getCacheFilePath(key, hash) == <<safeKey(key), shortHash(hash), "cache">>

\* Entries of the cache directory besides index.json: the cache files, a file
\* the cache did not write and a subdirectory.
StrayFile == <<"stray.txt">>
SubDir == <<"sub">>
CacheFileNames == {getCacheFilePath(k, h) : k \in CacheKeys, h \in CacheHashes}
DirNames == CacheFileNames \cup {StrayFile, SubDir}

EmptyMetadata == [k \in CacheKeys |-> NoHash]
EmptyDir == [n \in DirNames |-> Absent]

\* The key whose producer made the content of a cache file
NoKey == <<>>
NoOrigin == [n \in CacheFileNames |-> NoKey]

\* index.json: absent, unparsable, or {version, entries}
IndexAbsent == [state |-> "absent", version |-> "", entries |-> EmptyMetadata]
IndexCorrupt == [state |-> "corrupt", version |-> "", entries |-> EmptyMetadata]
IndexOf(version, entries) == [state |-> "ok", version |-> version, entries |-> entries]

\* fileSystem.existsSync / statSync(...).isFile() on an entry of the directory
existsSync(d, name) == d[name] # Absent
isFile(d, name) == d[name] # Absent /\ d[name] # Directory

IdleCall ==
  [pc |-> "idle", key |-> <<>>, hash |-> <<>>, metaAtStart |-> NoHash,
   unlinkFailed |-> FALSE, readFailed |-> FALSE, oldExisted |-> FALSE, oldGone |-> FALSE,
   succSame |-> FALSE, succStored |-> FALSE, succRuns |-> 0, succValue |-> NoValue]

\* What the latest operation on the cache was and did. For a returned
\* cacheByHash call: its arguments, how often it ran the producer, whether
\* the stale file existed when it started and was gone once it waited for the
\* producer, and the faults it met (the state it returned in is the state lastOp is read in:
\* every operation on the cache sets lastOp). succSame: the call
\* started directly after a call with the same key and hash had returned
\* (succRuns, succValue, succStored: that call's producer runs, its value,
\* and whether the value was in the cache file when it returned).
NoOp ==
  [op |-> "none", key |-> <<>>, hash |-> <<>>, metaAtStart |-> NoHash,
   runs |-> 0, result |-> NoValue, stored |-> FALSE,
   unlinkFailed |-> FALSE, readFailed |-> FALSE, writeFailed |-> FALSE,
   oldExisted |-> FALSE, oldGone |-> FALSE,
   succSame |-> FALSE, succStored |-> FALSE, succRuns |-> 0, succValue |-> NoValue,
   mismatch |-> FALSE, listFailed |-> FALSE, failed |-> {}, indexKept |-> FALSE,
   existsFailed |-> FALSE, saveFailed |-> FALSE, cached |-> FALSE, wrote |-> FALSE]

Op(name) == [NoOp EXCEPT !.op = name]

\* Before the constructor runs: the directory holds what an earlier process
\* or anybody else left there.
\* What an earlier process left behind: a value v1 cached for a/b
PersistedDir == [EmptyDir EXCEPT ![getCacheFilePath(KeyAB, HashA1)] = "v1"]
PersistedIndex == IndexOf(DevServerCacheVersion, [EmptyMetadata EXCEPT ![KeyAB] = HashA1])
PersistedOrigin == [NoOrigin EXCEPT ![getCacheFilePath(KeyAB, HashA1)] = KeyAB]

CacheInit ==
  /\ cacheVersion = DevServerCacheVersion
  /\ constructed = FALSE
  /\ metadataCache = EmptyMetadata
  /\ \/ dir = EmptyDir /\ indexJson = IndexAbsent
     \/ /\ dir = [EmptyDir EXCEPT ![StrayFile] = "stray", ![SubDir] = Directory]
        /\ indexJson \in {IndexAbsent, IndexCorrupt}
     \/ /\ dir = PersistedDir
        /\ indexJson = PersistedIndex
  /\ calls = [c \in Callers |-> IdleCall]
  /\ lastOp = NoOp
  /\ ops = 0

\* DiskCache.clearAllFiles: the directory and index.json after it. listFailed:
\* readdirSync throws; failed: the entries whose unlinkSync throws.
clearAllFilesDir(d, listFailed, failed) ==
  IF listFailed THEN d
  ELSE [n \in DirNames |-> IF isFile(d, n) /\ n \notin failed THEN Absent ELSE d[n]]

clearAllFilesIndex(index, listFailed, indexKept) ==
  IF listFailed \/ indexKept THEN index ELSE IndexAbsent

\* The persisted index is readable and of another format version
OtherVersion(index, version) == index.state = "ok" /\ index.version # version

\* loadMetadataIndex comparing the versions the wrong way round
versionMismatchNever(index, version) == index.version # index.version

\* loadMetadataIndex's test for dropping the whole cache
versionMismatch(index, version) == index.version # version

\* new DiskCache(cacheDir, cacheVersion): ensureCacheDir, then
\* loadMetadataIndex.
Construct ==
  /\ ~constructed
  /\ UNCHANGED <<ops, guardVars, devVars, lifeVars, routeVars, prodVars>>
  /\ constructed' = TRUE
  /\ UNCHANGED <<cacheVersion, calls>>
  /\ IF indexJson.state = "absent" THEN
       /\ UNCHANGED <<metadataCache, dir, indexJson>>
       /\ lastOp' = Op("construct")
     ELSE IF indexJson.state = "corrupt" \/ versionMismatch(indexJson, cacheVersion) THEN
       \E listFailed \in BOOLEAN, indexKept \in BOOLEAN,
          failed \in SUBSET {n \in DirNames : isFile(dir, n)} :
         /\ listFailed => (failed = {} /\ ~indexKept)
         /\ dir' = clearAllFilesDir(dir, listFailed, failed)
         /\ indexJson' = clearAllFilesIndex(indexJson, listFailed, indexKept)
         /\ metadataCache' = EmptyMetadata
         /\ lastOp' = [Op("construct") EXCEPT
                         !.mismatch = OtherVersion(indexJson, cacheVersion),
                         !.listFailed = listFailed, !.failed = failed,
                         !.indexKept = indexKept]
     ELSE
       /\ metadataCache' = indexJson.entries
       /\ UNCHANGED <<dir, indexJson>>
       /\ lastOp' = [Op("construct") EXCEPT !.mismatch = OtherVersion(indexJson, cacheVersion)]

\* DiskCache.saveMetadataIndex; a failed write is only warned about
saveMetadataIndex(index, version, entries, saveFailed) ==
  IF saveFailed THEN index ELSE IndexOf(version, entries)

\* cacheByHash forgetting metadataCache.set
setMetadataForgotten(meta, key, hash) == meta

\* metadataCache.set(key, {key, hash, timestamp}); the timestamp is not
\* modelled
setMetadata(meta, key, hash) == [meta EXCEPT ![key] = hash]

\* cacheByHash without the cleanup of the stale file
unlinkStaleSkipped(d, meta, hash, old, unlinkFailed) == d

\* cacheByHash's cleanup of the stale file: unlinked when it exists; an
\* error is ignored
unlinkStale(d, meta, hash, old, unlinkFailed) ==
  IF meta # NoHash /\ meta # hash /\ existsSync(d, old) /\ ~unlinkFailed
    THEN [d EXCEPT ![old] = Absent] ELSE d

\* cacheByHash's test for a hit: the key's entry carries this hash and the
\* cache file exists
isCacheHit(meta, hash, d, path) == meta = hash /\ existsSync(d, path)

\* cacheByHash's test for an entry to discard
isStale(meta, hash) == meta # NoHash /\ meta # hash

\* a write that leaves the file as it was
writeFileSyncDropped(d, path, value, writeFailed) == d

\* this.fileSystem.writeFileSync(cacheFilePath, value)
writeFileSync(d, path, value, writeFailed) ==
  IF writeFailed THEN d ELSE [d EXCEPT ![path] = value]

\* cacheByHash from its call to its first suspension: a hit returns the file's
\* content; otherwise the stale file is unlinked, the producer is invoked and
\* the call waits for it.
CacheByHashStart(c, key, hash) ==
  LET meta == metadataCache[key]
      path == getCacheFilePath(key, hash)
      old == getCacheFilePath(key, meta)
      succSame == lastOp.op = "return" /\ lastOp.key = key /\ lastOp.hash = hash
      follow == [succSame |-> succSame,
                 succStored |-> succSame /\ lastOp.stored,
                 succRuns |-> IF succSame THEN lastOp.runs ELSE 0,
                 succValue |-> IF succSame THEN lastOp.result ELSE NoValue]
  IN
  /\ constructed
  /\ calls[c].pc = "idle"
  /\ \A other \in Callers : other < c => calls[other].pc # "idle"
  /\ ops < MaxOps
  /\ ops' = ops + 1
  /\ UNCHANGED <<cacheVersion, constructed, metadataCache, indexJson, guardVars, devVars, lifeVars, routeVars, prodVars>>
  /\ \E existsFailed \in BOOLEAN, readFailed \in BOOLEAN, unlinkFailed \in BOOLEAN :
       /\ existsFailed => (meta = hash /\ ~readFailed)
       /\ readFailed => isCacheHit(meta, hash, dir, path)
       /\ unlinkFailed => (isStale(meta, hash) /\ existsSync(dir, old))
       /\ IF existsFailed THEN
            \* existsSync(cacheFilePath) throws outside the inner try: the
            \* outer catch rethrows and the call fails
            /\ UNCHANGED <<dir, calls>>
            /\ lastOp' = [Op("throw") EXCEPT
                 !.key = key, !.hash = hash, !.metaAtStart = meta,
                 !.existsFailed = TRUE]
          ELSE IF isCacheHit(meta, hash, dir, path) /\ ~readFailed THEN
            /\ UNCHANGED <<dir, calls>>
            /\ lastOp' = [Op("return") EXCEPT
                 !.key = key, !.hash = hash, !.metaAtStart = meta,
                 !.runs = 0, !.result = dir[path], !.stored = TRUE,
                 !.succSame = follow.succSame, !.succStored = follow.succStored,
                 !.succRuns = follow.succRuns, !.succValue = follow.succValue]
          ELSE
            /\ dir' = unlinkStale(dir, meta, hash, old, unlinkFailed)
            /\ calls' = [calls EXCEPT ![c] =
                 [pc |-> "producing", key |-> key, hash |-> hash, metaAtStart |-> meta,
                  unlinkFailed |-> unlinkFailed, readFailed |-> readFailed,
                  oldExisted |-> isStale(meta, hash) /\ existsSync(dir, old),
                  oldGone |-> isStale(meta, hash) /\ ~existsSync(dir', old),
                  succSame |-> follow.succSame, succStored |-> follow.succStored,
                  succRuns |-> follow.succRuns, succValue |-> follow.succValue]]
            /\ lastOp' = [Op("start") EXCEPT !.key = key, !.hash = hash]

\* cacheByHash after the producer has settled: the value is written to the
\* cache file, the entry set and the index saved; a failed write leaves the
\* value uncached. The value is returned either way.
CacheByHashFinish(c) ==
  LET call == calls[c]
      path == getCacheFilePath(call.key, call.hash)
  IN
  /\ call.pc = "producing"
  /\ UNCHANGED <<cacheVersion, constructed, ops, guardVars, devVars, lifeVars, routeVars>>
  /\ UNCHANGED <<headVars, buildVars, jobVars, assetVars, rpcVars, mockVars>>
  /\ \E value \in CacheValues, writeFailed \in BOOLEAN, saveFailed \in BOOLEAN :
       /\ writeFailed => ~saveFailed
       /\ dir' = writeFileSync(dir, path, value, writeFailed)
       /\ fileOrigin' = IF dir'[path] # dir[path] \/ ~writeFailed
                        THEN [fileOrigin EXCEPT ![path] = call.key] ELSE fileOrigin
       /\ metadataCache' = IF writeFailed THEN metadataCache
                           ELSE setMetadata(metadataCache, call.key, call.hash)
       /\ indexJson' = IF writeFailed THEN indexJson
                       ELSE saveMetadataIndex(indexJson, cacheVersion, metadataCache', saveFailed)
       /\ calls' = [calls EXCEPT ![c] = IdleCall]
       /\ lastOp' = [Op("return") EXCEPT
            !.key = call.key, !.hash = call.hash, !.metaAtStart = call.metaAtStart,
            !.runs = 1, !.result = value, !.stored = ~writeFailed,
            !.unlinkFailed = call.unlinkFailed, !.readFailed = call.readFailed,
            !.writeFailed = writeFailed, !.saveFailed = saveFailed,
            !.cached = (dir'[path] = value /\ metadataCache'[call.key] = call.hash),
            !.wrote = (dir' # dir \/ metadataCache' # metadataCache \/ indexJson' # indexJson),
            !.oldExisted = call.oldExisted,
            !.oldGone = call.oldGone,
            !.succSame = call.succSame, !.succStored = call.succStored,
            !.succRuns = call.succRuns, !.succValue = call.succValue]

\* DiskCache.clear: unlink every entry's file (errors ignored), drop the
\* entries, save the index.
CacheClear ==
  /\ constructed
  /\ ops < MaxOps
  /\ ops' = ops + 1
  /\ LET mine == {getCacheFilePath(k, metadataCache[k]) :
                    k \in {x \in CacheKeys : metadataCache[x] # NoHash}}
     IN \E failed \in SUBSET {n \in mine : existsSync(dir, n)}, saveFailed \in BOOLEAN :
          /\ dir' = [n \in DirNames |->
                       IF n \in mine /\ n \notin failed THEN Absent ELSE dir[n]]
          /\ metadataCache' = EmptyMetadata
          /\ indexJson' = saveMetadataIndex(indexJson, cacheVersion, EmptyMetadata, saveFailed)
          /\ lastOp' = [Op("clear") EXCEPT !.failed = failed]
  /\ UNCHANGED <<cacheVersion, constructed, calls, guardVars, devVars, lifeVars, routeVars, prodVars>>

\* The dev server stops and a new process starts, maybe of another cache
\* format version; the directory stays.
ProcessRestart ==
  /\ constructed
  /\ ops < MaxOps
  /\ ops' = ops + 1
  /\ constructed' = FALSE
  /\ cacheVersion' \in CacheVersions
  /\ metadataCache' = EmptyMetadata
  /\ calls' = [c \in Callers |-> IdleCall]
  /\ lastOp' = Op("restart")
  /\ UNCHANGED <<dir, indexJson, guardVars, devVars, lifeVars, routeVars, prodVars>>

CacheNext ==
  \/ Construct
  \/ \E c \in Callers, key \in CacheKeys, hash \in CacheHashes : CacheByHashStart(c, key, hash)
  \/ \E c \in Callers : CacheByHashFinish(c)
  \/ CacheClear
  \/ ProcessRestart

\* ------------------------------------------------------------------------
\* Dev server: the source watcher
\* ------------------------------------------------------------------------

\* File-system events the model produces in one run
MaxEvents == 2

\* The two DevServer variants of the source: the one subscribing to
\* @parcel/watcher and the one listening to chokidar.
WatcherKinds == {"parcel", "chokidar"}

\* Project-relative paths are sequences of pieces of the path string, cut so
\* that every occurrence of "src/pages/", "src/api/", "src/jobs/" and ".tsx"
\* in the string is a piece of its own.
SrcPages == "src/pages/"
SrcApi == "src/api/"
SrcJobs == "src/jobs/"
Tsx == ".tsx"

PageHome == <<SrcPages, "home/page", Tsx>>
PageOdd == <<SrcPages, "my", Tsx, ".bak/page", Tsx>>
PageStyle == <<SrcPages, "home/style", ".css">>
ApiRoute == <<SrcApi, "a/route", ".ts">>
JobFile == <<SrcJobs, "nightly/job", ".ts">>
Component == <<"src/components/", "Button", Tsx>>
WatchedPaths == {PageHome, PageOdd, PageStyle, ApiRoute, JobFile, Component}
NoFile == <<>>

\* The files the page router and the API router are built from
PageFiles == {PageHome, PageOdd}
RouteFiles == {ApiRoute}

EventTypes == {"create", "update", "delete"}

\* normalizedPath.startsWith(prefix)
startsWith(path, prefix) == Len(path) > 0 /\ path[1] = prefix

\* normalizedPath.endsWith(suffix)
endsWith(path, suffix) == Len(path) > 0 /\ path[Len(path)] = suffix

\* String.prototype.replace(piece, ""): drops the first occurrence only
RECURSIVE replaceFirst(_, _)
replaceFirst(path, piece) ==
  IF path = <<>> THEN <<>>
  ELSE IF Head(path) = piece THEN Tail(path)
  ELSE <<Head(path)>> \o replaceFirst(Tail(path), piece)

\* The event name the watcher library gives a change
eventName(kind, type) ==
  IF kind = "parcel" THEN type
  ELSE CASE type = "create" -> "add"
         [] type = "update" -> "change"
         [] OTHER -> "unlink"

PeaqueJs == <<"/peaque.js">>

\* loadFrontendState: a new state object built from the pages on disk
loadFrontendState(disk, previous) ==
  [ver |-> previous.ver + 1, pages |-> disk \cap PageFiles]

\* loadBackendRouter: a new route tree built from the API files on disk
loadBackendRouter(disk, previous) ==
  [ver |-> previous.ver + 1, routes |-> disk \cap RouteFiles]

\* notifyConnectedClients: one frame to the peers; cause and routerVer note
\* which event it was sent for and which page router was in place then.
notifyConnectedClients(frames, event, path, cause, routerVer) ==
  Append(frames, [event |-> event, path |-> path, cause |-> cause,
                  routerVer |-> routerVer])

\* The body of the parcel-watcher callback's loop for one event
parcelEvent(st, ev, disk) ==
  IF startsWith(ev.path, SrcPages) /\ (ev.type = "create" \/ ev.type = "delete") THEN
    LET rebuilt == loadFrontendState(disk, st.frontendState) IN
      [st EXCEPT !.frontendState = rebuilt,
                 !.hmrFrames = notifyConnectedClients(st.hmrFrames, "change", PeaqueJs,
                                                      ev.seq, rebuilt.ver)]
  ELSE IF startsWith(ev.path, SrcApi) THEN
    [st EXCEPT !.backendRouter = loadBackendRouter(disk, st.backendRouter)]
  ELSE IF startsWith(ev.path, SrcJobs) THEN
    [st EXCEPT !.jobsUpdates = st.jobsUpdates + 1]
  ELSE IF endsWith(ev.path, Tsx) THEN
    [st EXCEPT !.hmrFrames =
       notifyConnectedClients(st.hmrFrames, eventName("parcel", ev.type),
                              replaceFirst(ev.path, Tsx), ev.seq, st.frontendState.ver)]
  ELSE st

\* The chokidar "all" listener for one event
chokidarEvent(st, ev, disk) ==
  IF endsWith(ev.path, Tsx) THEN
    [st EXCEPT !.hmrFrames =
       notifyConnectedClients(st.hmrFrames, eventName("chokidar", ev.type),
                              replaceFirst(ev.path, Tsx), ev.seq, st.frontendState.ver)]
  ELSE IF startsWith(ev.path, SrcPages) THEN
    LET rebuilt == loadFrontendState(disk, st.frontendState) IN
      [st EXCEPT !.frontendState = rebuilt,
                 !.hmrFrames = notifyConnectedClients(st.hmrFrames,
                                                      eventName("chokidar", ev.type),
                                                      PeaqueJs, ev.seq, rebuilt.ver)]
  ELSE IF startsWith(ev.path, SrcApi) THEN
    [st EXCEPT !.backendRouter = loadBackendRouter(disk, st.backendRouter)]
  ELSE IF startsWith(ev.path, SrcJobs) THEN
    [st EXCEPT !.jobsUpdates = st.jobsUpdates + 1]
  ELSE st

\* One event through the callback; the handled event is noted with the page
\* router version it found.
watchEvent(kind, st, ev, disk) ==
  LET after == IF kind = "parcel" THEN parcelEvent(st, ev, disk)
               ELSE chokidarEvent(st, ev, disk)
  IN [after EXCEPT !.delivered =
        Append(st.delivered, [type |-> ev.type, path |-> ev.path, seq |-> ev.seq,
                              verBefore |-> st.frontendState.ver])]

\* for (const event of events) { ... }
RECURSIVE watchEvents(_, _, _, _)
watchEvents(kind, st, evs, disk) ==
  IF evs = <<>> THEN st
  ELSE watchEvents(kind, watchEvent(kind, st, Head(evs), disk), Tail(evs), disk)

\* A file is written (created, or new bytes) or removed; the watcher notes
\* the event.
FsChange ==
  \E path \in WatchedPaths, remove \in BOOLEAN :
    LET type == IF remove THEN "delete"
                ELSE IF path \in files THEN "update" ELSE "create"
    IN
    /\ eventCount < MaxEvents
    /\ remove => path \in files
    /\ eventCount' = eventCount + 1
    /\ files' = IF remove THEN files \ {path} ELSE files \cup {path}
    /\ events' = Append(events, [type |-> type, path |-> path, seq |-> eventCount + 1])
    /\ UNCHANGED <<watcherKind, frontendState, backendRouter, jobsUpdates, hmrFrames,
                   delivered, inflight, guardVars, cacheVars, lifeVars, routeVars, prodVars>>

\* The watcher calls back: @parcel/watcher with the batch of pending events,
\* chokidar with the oldest one. The callback runs to its end without
\* suspending.
WatcherCallback ==
  LET batch == IF watcherKind = "parcel" THEN events ELSE <<Head(events)>>
      rest == IF watcherKind = "parcel" THEN <<>> ELSE Tail(events)
      st == watchEvents(watcherKind,
                        [frontendState |-> frontendState, backendRouter |-> backendRouter,
                         jobsUpdates |-> jobsUpdates, hmrFrames |-> hmrFrames,
                         delivered |-> delivered],
                        batch, files)
  IN
  /\ events # <<>>
  /\ events' = rest
  /\ frontendState' = st.frontendState
  /\ backendRouter' = st.backendRouter
  /\ jobsUpdates' = st.jobsUpdates
  /\ hmrFrames' = st.hmrFrames
  /\ delivered' = st.delivered
  /\ UNCHANGED <<watcherKind, files, eventCount, inflight, guardVars, cacheVars, lifeVars, routeVars, prodVars>>

\* ------------------------------------------------------------------------
\* Dev server: requests
\* ------------------------------------------------------------------------

\* Request paths are sequences of segments: /api/__rpc/m/f is
\* <<"api", "__rpc", "m", "f">>.
DepsPrefix == <<"@deps">>
SrcPrefix == <<"@src">>
RpcPrefix == <<"api", "__rpc">>
ApiPrefix == <<"api">>
DepsReactPath == <<"@deps", "react">>
SrcHomePath == <<"@src", "src", "pages", "home", "page">>
RpcMGPath == <<"api", "__rpc", "m", "g">>
ApiAPath == <<"api", "a">>
PeaqueDevJsPath == <<"peaque-dev.js">>
PeaqueLoaderJsPath == <<"peaque-loader.js">>
PeaqueJsPath == <<"peaque.js">>
PeaqueCssPath == <<"peaque.css">>
HmrPath == <<"hmr">>
LogoPath == <<"logo.png">>
AboutPath == <<"about">>
SrcEscapePath == <<"@src", "..", "..", "etc", "passwd">>
SrcMissingPath == <<"@src", "src", "pages", "gone">>
DevPaths ==
  {DepsReactPath, SrcHomePath, SrcEscapePath, SrcMissingPath, RpcMFPath, RpcMGPath, ApiAPath, PeaqueDevJsPath,
   PeaqueLoaderJsPath, PeaqueJsPath, PeaqueCssPath, HmrPath, LogoPath, AboutPath}

\* The files of src/public
PublicAssets == {LogoPath}

\* requestPath.startsWith("/<prefix>/")
underPrefix(path, prefix) == Len(path) > Len(prefix) /\ IsPrefix(prefix, path)

\* context.basePath, and a regular file outside of it
ProjectRoot == <<"project">>
EtcPasswd == <<"/etc/passwd">>

\* The extensions serveSourceModule tries, in order
Extensions ==
  <<"", ".ts", Tsx, ".js", ".jsx", "/index.ts", "/index.tsx", "/index.js",
    "/index.jsx">>

\* path.resolve on the segments of a path: ".." drops the segment before
\* it, and stays at the root when there is none
RECURSIVE resolveSegments(_, _)
resolveSegments(segments, resolved) ==
  IF segments = <<>> THEN resolved
  ELSE IF Head(segments) = ".."
    THEN resolveSegments(Tail(segments),
                         IF resolved = <<>> THEN <<>>
                         ELSE SubSeq(resolved, 1, Len(resolved) - 1))
    ELSE resolveSegments(Tail(segments), Append(resolved, Head(segments)))

\* path.resolve(path.join(context.basePath, srcPath + ext))
candidate(path, ext) ==
  [segments |-> resolveSegments(ProjectRoot \o Tail(path), <<>>), ext |-> ext]

\* no test of the candidate against the project root
insideRootUnchecked(c) == TRUE

\* candidate.startsWith(resolvedBasePath + path.sep) || candidate === resolvedBasePath
insideRoot(c) ==
  \/ Len(c.segments) > Len(ProjectRoot) /\ IsPrefix(ProjectRoot, c.segments)
  \/ c.segments = ProjectRoot /\ c.ext \in {"", "/index.ts", "/index.tsx", "/index.js", "/index.jsx"}

\* The file a candidate names
fileAt(c) ==
  IF c.segments = <<"project", "src", "pages", "home", "page">> /\ c.ext = Tsx
    THEN PageHome
  ELSE IF c.segments = <<"etc", "passwd">> /\ c.ext = "" THEN EtcPasswd
  ELSE NoFile

\* fileSystem.existsSync(candidate) && fileSystem.statSync(candidate).isFile()
isRegularFile(c, disk) == fileAt(c) \in disk \cup {EtcPasswd}

\* The file serveSourceModule resolves a /@src/ path to: the first candidate
\* that lies in the project root and is a regular file
sourceFileOf(path, disk) ==
  LET hits == {i \in 1..Len(Extensions) :
                 LET c == candidate(path, Extensions[i])
                 IN insideRoot(c) /\ isRegularFile(c, disk)}
  IN IF hits = {} THEN NoFile
     ELSE fileAt(candidate(path, Extensions[CHOOSE i \in hits : \A j \in hits : i <= j]))
DevMethods == {"GET", "POST", "OPTIONS"}

DevRequests ==
  [method : DevMethods, secFetchSite : {"same-origin", "cross-site"},
   origin : {NoHeader}, host : {"app.test"}, path : DevPaths]

\* What the module m exports, and the methods the route a/route.ts handles
ModuleExports == {"f"}
RouteMethods == {"GET", "POST"}

\* rpcPath.substring(rpcPath.lastIndexOf("/") + 1)
functionName(path) == path[Len(path)]

\* The context requestHandler hands to handleDevServerRequest
requestContext(front, back) == [frontendState |-> front, backendRouter |-> back]

\* match(req.path().substring(4), context.backendRouter); tree notes the
\* route tree that was searched.
match(path, router) ==
  LET file == IF path = ApiAPath THEN ApiRoute ELSE NoFile IN
    IF file \in router.routes
    THEN [found |-> TRUE, handler |-> file, tree |-> router.ver]
    ELSE [found |-> FALSE, handler |-> NoFile, tree |-> router.ver]

NoMatch == [found |-> FALSE, handler |-> NoFile, tree |-> 0]

\* The route looked up again in the server's current tree
handlerOfLive(matchResult, path, live) == match(path, live)

\* matchResult.names.handler, after the middleware files have loaded
handlerOf(matchResult, path, live) == matchResult

IdleReq ==
  [pc |-> "idle", req |-> NoReq,
   context |-> requestContext([ver |-> 0, pages |-> {}], [ver |-> 0, routes |-> {}]),
   startFront |-> 0, startBack |-> 0, seenFront |-> {}, seenBack |-> {},
   resolvedAt |-> 0, matchResult |-> NoMatch,
   loaded |-> FALSE, decoded |-> FALSE, invoked |-> FALSE,
   families |-> {}, served |-> NoFile, store |-> NoReq, thrown |-> NoBody,
   code |-> 0, body |-> NoBody]

\* the handler of the URL family f is given the request
Family(r, f) == [r EXCEPT !.families = @ \cup {f}]

Respond(r, code, body) == [r EXCEPT !.pc = "done", !.code = code, !.body = body]

\* serveSourceModule
serveSourceModule(r, disk) ==
  LET fullPath == sourceFileOf(r.req.path, disk) IN
    IF fullPath = NoFile THEN Respond(r, 404, "File not found")
    ELSE [Respond(r, 200, "source module") EXCEPT !.served = fullPath]

\* handleDevServerRequest with the /api/ test ahead of the /api/__rpc/ test
handleDevServerRequestApiFirst(r, disk) ==
  LET path == r.req.path IN
  IF underPrefix(path, ApiPrefix) THEN
    LET matchResult == match(path, r.context.backendRouter)
        api == Family(r, "/api/")
    IN
      IF ~matchResult.found
      THEN [Respond(api, 404, "Not Found") EXCEPT !.seenBack = {matchResult.tree}]
      ELSE [api EXCEPT !.pc = "apiLoad", !.matchResult = matchResult,
                       !.seenBack = {matchResult.tree}]
  ELSE IF underPrefix(path, RpcPrefix) THEN
    [Family(r, "/api/__rpc/") EXCEPT !.pc = "rpcLoad"]
  ELSE Respond(Family(r, "SPA shell"), 200, "main html")

\* handleDevServerRequest up to the request's first suspension; the
\* branches that read no server state after suspending are followed to their
\* response. families notes the URL families whose handler got the request.
handleDevServerRequest(r, disk) ==
  LET path == r.req.path IN
  IF underPrefix(path, DepsPrefix) THEN
    Respond(Family(r, "/@deps/"), 200, "dependency bundle")
  ELSE IF underPrefix(path, SrcPrefix) THEN
    serveSourceModule(Family(r, "/@src/"), disk)
  ELSE IF underPrefix(path, RpcPrefix) THEN
    \* handleRpcRequest: awaits the module from the module cache
    [Family(r, "/api/__rpc/") EXCEPT !.pc = "rpcLoad"]
  ELSE IF underPrefix(path, ApiPrefix) THEN
    \* handleBackendApiRequest
    LET matchResult == match(path, r.context.backendRouter)
        api == Family(r, "/api/")
    IN
      IF ~matchResult.found
      THEN [Respond(api, 404, "Not Found") EXCEPT !.seenBack = {matchResult.tree}]
      ELSE [api EXCEPT !.pc = "apiLoad", !.matchResult = matchResult,
                       !.seenBack = {matchResult.tree}]
  ELSE IF path = PeaqueDevJsPath THEN
    Respond(Family(r, "runtime asset"), 200, "main script")
  ELSE IF path = PeaqueLoaderJsPath THEN
    Respond(Family(r, "runtime asset"), 200, "loader script")
  ELSE IF path = PeaqueJsPath THEN
    \* createDevRouterModule(context.frontendState, ...)
    [Respond(Family(r, "runtime asset"), 200, "router module")
       EXCEPT !.seenFront = {r.context.frontendState.ver}]
  ELSE IF path = PeaqueCssPath THEN
    Respond(Family(r, "runtime asset"), 200, "css bundle")
  ELSE IF path = HmrPath THEN Respond(Family(r, "/hmr"), 101, "hmr peer")
  ELSE IF path \in PublicAssets THEN
    Respond(Family(r, "public asset"), 200, "public asset")
  ELSE Respond(Family(r, "SPA shell"), 200, "main html")

\* runWithRequestContext(request, fn) with nothing stored
runWithRequestContextEmpty(request, r) == r

\* runWithRequestContext(request, fn): fn and what it awaits run with the
\* request in the AsyncLocalStorage store
runWithRequestContext(request, r) == [r EXCEPT !.store = request]

\* useCurrentRequest() called while r is being handled
useCurrentRequest(r) ==
  IF r.store = NoReq THEN [throws |-> TRUE, request |-> NoReq]
  ELSE [throws |-> FALSE, request |-> r.store]

\* The HTTP server hands a request to the handler within its request context
httpServerRequest(req) == runWithRequestContext(req, [IdleReq EXCEPT !.req = req])

\* The HTTP server's adapter catches what the handler throws
httpServerCatch(r) ==
  IF r.pc = "rejected" THEN Respond(r, 500, r.thrown) ELSE r

\* DevServer.requestHandler: the server's current state goes into the
\* request's context, then handleDevServerRequest runs.
RequestHandler ==
  \E req \in DevRequests :
    /\ inflight.pc = "idle"
    /\ inflight' =
         handleDevServerRequest(
           [httpServerRequest(req) EXCEPT
                           !.context = requestContext(frontendState, backendRouter),
                           !.startFront = frontendState.ver,
                           !.startBack = backendRouter.ver],
           files)
    /\ UNCHANGED <<watcherKind, files, events, eventCount, frontendState, backendRouter,
                   jobsUpdates, hmrFrames, delivered, guardVars, cacheVars, lifeVars, routeVars, prodVars>>

\* handleRpcRequest once the module has loaded: the export is looked up, the
\* body decoded and the function called.
RpcLoaded ==
  LET r == inflight
      loaded == [r EXCEPT !.loaded = TRUE]
  IN
  /\ r.pc = "rpcLoad"
  /\ inflight' =
       IF functionName(r.req.path) \notin ModuleExports
       THEN Respond(loaded, 404, "RPC handler not found")
       ELSE [loaded EXCEPT !.pc = "rpcCall", !.decoded = TRUE, !.invoked = TRUE]
  /\ UNCHANGED <<watcherKind, files, events, eventCount, frontendState, backendRouter,
                 jobsUpdates, hmrFrames, delivered, guardVars, cacheVars, lifeVars, routeVars, prodVars>>

ErrorMessages == {"not signed in"}

\* await target(...args) with every outcome answered by the result
awaitTargetSwallowed(r, outcome) == Respond(r, 200, "result")

\* const result = await target(...args); req.type(...).send(stringify(result)):
\* what the function throws leaves handleRpcRequest unanswered
awaitTarget(r, outcome) ==
  IF outcome = "returns" THEN Respond(r, 200, "result")
  ELSE [r EXCEPT !.pc = "rejected"]

\* handleRpcRequest once the function has returned: the result is sent.
RpcReturned ==
  /\ inflight.pc = "rpcCall"
  /\ inflight' = awaitTarget(inflight, "returns")
  /\ UNCHANGED <<watcherKind, files, events, eventCount, frontendState, backendRouter,
                 jobsUpdates, hmrFrames, delivered, guardVars, cacheVars, lifeVars, routeVars, prodVars>>

\* The function throws or its promise rejects: handleRpcRequest,
\* handleDevServerRequest and requestHandler reject in turn.
RpcThrew ==
  /\ inflight.pc = "rpcCall"
  /\ \E message \in ErrorMessages :
       inflight' = httpServerCatch(awaitTarget([inflight EXCEPT !.thrown = message], message))
  /\ UNCHANGED <<watcherKind, files, events, eventCount, frontendState, backendRouter,
                 jobsUpdates, hmrFrames, delivered, guardVars, cacheVars, lifeVars, routeVars, prodVars>>

\* every method taken to have a handler
hasHandlerAlways(method) == TRUE

\* typeof apiModule[req.method().toUpperCase()] === "function"
hasHandler(method) == method \in RouteMethods

\* handleBackendApiRequest once the middleware and handler modules have
\* loaded: the handler for the method is picked and the chain run.
ApiLoaded ==
  LET r == inflight
      resolved == handlerOf(r.matchResult, r.req.path, backendRouter)
      loaded == [r EXCEPT !.loaded = TRUE, !.resolvedAt = backendRouter.ver,
                          !.seenBack = r.seenBack \cup {resolved.tree}]
  IN
  /\ r.pc = "apiLoad"
  /\ inflight' =
       IF ~resolved.found THEN Respond(loaded, 404, "Not Found")
       ELSE IF ~hasHandler(r.req.method)
       THEN Respond(loaded, 500, "No handler for this method")
       ELSE [loaded EXCEPT !.pc = "apiCall", !.invoked = TRUE]
  /\ UNCHANGED <<watcherKind, files, events, eventCount, frontendState, backendRouter,
                 jobsUpdates, hmrFrames, delivered, guardVars, cacheVars, lifeVars, routeVars, prodVars>>

\* The API handler has returned and sent its response.
ApiReturned ==
  /\ inflight.pc = "apiCall"
  /\ inflight' = Respond(inflight, 200, "api response")
  /\ UNCHANGED <<watcherKind, files, events, eventCount, frontendState, backendRouter,
                 jobsUpdates, hmrFrames, delivered, guardVars, cacheVars, lifeVars, routeVars, prodVars>>

\* The response is flushed and the request gone.
RequestDone ==
  /\ inflight.pc = "done"
  /\ inflight' = IdleReq
  /\ UNCHANGED <<watcherKind, files, events, eventCount, frontendState, backendRouter,
                 jobsUpdates, hmrFrames, delivered, guardVars, cacheVars, lifeVars, routeVars, prodVars>>

\* new DevServer(...): both routers are loaded from the files on disk.
DevInit ==
  /\ watcherKind \in WatcherKinds
  /\ files = {PageHome, PageOdd, ApiRoute}
  /\ events = <<>>
  /\ eventCount = 0
  /\ frontendState = loadFrontendState(files, [ver |-> 0, pages |-> {}])
  /\ backendRouter = loadBackendRouter(files, [ver |-> 0, routes |-> {}])
  /\ jobsUpdates = 0
  /\ hmrFrames = <<>>
  /\ delivered = <<>>
  /\ inflight = IdleReq

\* The dev server of a process that runs none
DevQuiet ==
  /\ files = {}
  /\ events = <<>>
  /\ eventCount = 0
  /\ frontendState = [ver |-> 1, pages |-> {}]
  /\ backendRouter = [ver |-> 1, routes |-> {}]
  /\ jobsUpdates = 0
  /\ hmrFrames = <<>>
  /\ delivered = <<>>
  /\ inflight = IdleReq

DevIdle ==
  /\ watcherKind = "parcel"
  /\ DevQuiet

DevNext ==
  \/ FsChange
  \/ WatcherCallback
  \/ RequestHandler
  \/ RpcLoaded
  \/ RpcReturned
  \/ RpcThrew
  \/ ApiLoaded
  \/ ApiReturned
  \/ RequestDone

\* ------------------------------------------------------------------------
\* Dev server life cycle: constructor, start(), requests, stop()
\* ------------------------------------------------------------------------

MaxPeers == 1

\* The project directories the dev server may be started in: src/startup.ts
\* and src/middleware.ts lie in the src directory
Projects ==
  {p \in [src : BOOLEAN, startup : BOOLEAN, middleware : BOOLEAN] :
     (p.startup \/ p.middleware) => p.src}

LifeInit ==
  /\ \E p \in Projects :
       /\ srcExists = p.src
       /\ startupExists = p.startup
       /\ middlewareExists = p.middleware
  /\ lifePc = "new"
  /\ routersBuilt = FALSE
  /\ startupDone = FALSE
  /\ jobsState = "idle"
  /\ watcherState = "none"
  /\ listenerState = "unbound"
  /\ middlewareLoad = "none"
  /\ peers = 0
  /\ peersClosed = FALSE
  /\ lastServed = "none"

\* new DevServer(...): both routers are built synchronously, the load of
\* the global middleware is started and left to resolve later
DevServerConstructor ==
  /\ lifePc = "new"
  /\ routersBuilt' = TRUE
  /\ middlewareLoad' = IF middlewareExists THEN "pending" ELSE "none"
  /\ lifePc' = "constructed"
  /\ UNCHANGED <<srcExists, startupExists, middlewareExists, startupDone, jobsState,
                 watcherState, listenerState, peers, peersClosed, lastServed,
                 guardVars, cacheVars, devVars, routeVars, prodVars>>

\* .then of the middleware load: this.handler becomes the middleware chain
MiddlewareLoaded ==
  /\ middlewareLoad = "pending"
  /\ lifePc \notin {"new", "exited"}
  /\ middlewareLoad' = "hooked"
  /\ UNCHANGED <<srcExists, startupExists, middlewareExists, lifePc, routersBuilt,
                 startupDone, jobsState, watcherState, listenerState, peers,
                 peersClosed, lastServed, guardVars, cacheVars, devVars, routeVars, prodVars>>

\* .catch of the middleware load: the error is logged, this.handler stays
MiddlewareLoadFailed ==
  /\ middlewareLoad = "pending"
  /\ lifePc \notin {"new", "exited"}
  /\ middlewareLoad' = "failed"
  /\ UNCHANGED <<srcExists, startupExists, middlewareExists, lifePc, routersBuilt,
                 startupDone, jobsState, watcherState, listenerState, peers,
                 peersClosed, lastServed, guardVars, cacheVars, devVars, routeVars, prodVars>>

\* watchSourceFiles() as start() calls it: nothing is watched without a src
\* directory; the parcel subscription is awaited, the chokidar watcher is
\* created synchronously
watchSourceFilesUnawaited(kind, src) ==
  IF ~src THEN [watcher |-> "none", pc |-> "binding"]
  ELSE IF kind = "parcel" THEN [watcher |-> "subscribing", pc |-> "binding"]
  ELSE [watcher |-> "subscribed", pc |-> "binding"]

watchSourceFiles(kind, src) ==
  IF ~src THEN [watcher |-> "none", pc |-> "binding"]
  ELSE IF kind = "parcel" THEN [watcher |-> "subscribing", pc |-> "subscribing"]
  ELSE [watcher |-> "subscribed", pc |-> "binding"]

\* start() after runStartup: the jobs runner is started, the sources are
\* watched, server.startServer(port) is called
StartAfterStartup ==
  LET w == watchSourceFiles(watcherKind, srcExists)
  IN /\ jobsState' = "started"
     /\ watcherState' = w.watcher
     /\ lifePc' = w.pc

\* start() up to its first suspension
Start ==
  /\ lifePc = "constructed"
  /\ IF startupExists
       THEN /\ lifePc' = "startup"
            /\ UNCHANGED <<jobsState, watcherState>>
       ELSE StartAfterStartup
  /\ UNCHANGED <<srcExists, startupExists, middlewareExists, routersBuilt, startupDone,
                 listenerState, middlewareLoad, peers, peersClosed, lastServed,
                 guardVars, cacheVars, devVars, routeVars, prodVars>>

\* the startup module has been loaded: start() resumes
StartupCompleted ==
  /\ lifePc = "startup"
  /\ startupDone' = TRUE
  /\ StartAfterStartup
  /\ UNCHANGED <<srcExists, startupExists, middlewareExists, routersBuilt,
                 listenerState, middlewareLoad, peers, peersClosed, lastServed,
                 guardVars, cacheVars, devVars, routeVars, prodVars>>

\* an await of start() rejects: the error is logged and the process exits
StartFailed ==
  /\ lifePc \in {"startup", "subscribing", "binding"}
  /\ lifePc' = "exited"
  /\ UNCHANGED <<srcExists, startupExists, middlewareExists, routersBuilt, startupDone,
                 jobsState, watcherState, listenerState, middlewareLoad, peers,
                 peersClosed, lastServed, guardVars, cacheVars, devVars, routeVars, prodVars>>

\* watcher.subscribe resolves: start() resumes if it awaited it
WatcherSubscribed ==
  /\ watcherState = "subscribing"
  /\ lifePc \in {"subscribing", "binding", "running"}
  /\ watcherState' = "subscribed"
  /\ lifePc' = IF lifePc = "subscribing" THEN "binding" ELSE lifePc
  /\ UNCHANGED <<srcExists, startupExists, middlewareExists, routersBuilt, startupDone,
                 jobsState, listenerState, middlewareLoad, peers, peersClosed,
                 lastServed, guardVars, cacheVars, devVars, routeVars, prodVars>>

\* server.startServer(port) resolves: the listener is bound
ServerStarted ==
  /\ lifePc = "binding"
  /\ listenerState' = "accepting"
  /\ lifePc' = "running"
  /\ UNCHANGED <<srcExists, startupExists, middlewareExists, routersBuilt, startupDone,
                 jobsState, watcherState, middlewareLoad, peers, peersClosed,
                 lastServed, guardVars, cacheVars, devVars, routeVars, prodVars>>

\* this.handler(req) as the HttpServer calls it for a request
handler(load) == IF load = "hooked" THEN "middleware chain" ELSE "requestHandler"

ServeRequest ==
  /\ listenerState = "accepting"
  /\ lastServed' = handler(middlewareLoad)
  /\ UNCHANGED <<srcExists, startupExists, middlewareExists, lifePc, routersBuilt,
                 startupDone, jobsState, watcherState, listenerState, middlewareLoad,
                 peers, peersClosed, guardVars, cacheVars, devVars, routeVars, prodVars>>

\* a browser connects to /hmr
HmrConnect ==
  /\ listenerState = "accepting"
  /\ peers < MaxPeers
  /\ peers' = peers + 1
  /\ UNCHANGED <<srcExists, startupExists, middlewareExists, lifePc, routersBuilt,
                 startupDone, jobsState, watcherState, listenerState, middlewareLoad,
                 peersClosed, lastServed, guardVars, cacheVars, devVars, routeVars, prodVars>>

\* HttpServer.stop(): the listening socket stops accepting connections
serverStop(listener) == "closed"

\* the first two statements of stop(): server.stop(), jobsRunner.stop()
stopServerKept(listener, jobs) ==
  [listener |-> listener, jobs |-> "stopped"]

stopServerAndJobs(listener, jobs) ==
  [listener |-> serverStop(listener), jobs |-> "stopped"]

\* stop(): the server, then the jobs runner, then the watcher; the parcel
\* subscription is unsubscribed with an await, the chokidar watcher closed
\* without one
Stop ==
  /\ lifePc = "running"
  /\ LET s == stopServerAndJobs(listenerState, jobsState)
     IN /\ listenerState' = s.listener
        /\ jobsState' = s.jobs
  /\ IF watcherState = "none"
       THEN lifePc' = "stopped" /\ UNCHANGED watcherState
       ELSE IF watcherKind = "parcel"
         THEN lifePc' = "unsubscribing" /\ UNCHANGED watcherState
         ELSE lifePc' = "stopped" /\ watcherState' = "closed"
  /\ UNCHANGED <<srcExists, startupExists, middlewareExists, routersBuilt, startupDone,
                 middlewareLoad, peers, peersClosed, lastServed,
                 guardVars, cacheVars, devVars, routeVars, prodVars>>

\* watcherSubscription.unsubscribe() resolves: stop() returns
Unsubscribed ==
  /\ lifePc = "unsubscribing"
  /\ watcherState' = "closed"
  /\ lifePc' = "stopped"
  /\ UNCHANGED <<srcExists, startupExists, middlewareExists, routersBuilt, startupDone,
                 jobsState, listenerState, middlewareLoad, peers, peersClosed,
                 lastServed, guardVars, cacheVars, devVars, routeVars, prodVars>>

\* after stop() has returned the open WebSocket peers are closed
PeersClose ==
  /\ lifePc = "stopped"
  /\ ~peersClosed
  /\ peersClosed' = TRUE
  /\ peers' = 0
  /\ UNCHANGED <<srcExists, startupExists, middlewareExists, lifePc, routersBuilt,
                 startupDone, jobsState, watcherState, listenerState, middlewareLoad,
                 lastServed, guardVars, cacheVars, devVars, routeVars, prodVars>>

\* and the listener exits
ListenerExit ==
  /\ lifePc = "stopped"
  /\ peersClosed
  /\ listenerState' = "exited"
  /\ lifePc' = "exited"
  /\ UNCHANGED <<srcExists, startupExists, middlewareExists, routersBuilt, startupDone,
                 jobsState, watcherState, middlewareLoad, peers, peersClosed,
                 lastServed, guardVars, cacheVars, devVars, routeVars, prodVars>>

LifeIdle ==
  /\ srcExists = TRUE
  /\ startupExists = FALSE
  /\ middlewareExists = FALSE
  /\ lifePc = "new"
  /\ routersBuilt = FALSE
  /\ startupDone = FALSE
  /\ jobsState = "idle"
  /\ watcherState = "none"
  /\ listenerState = "unbound"
  /\ middlewareLoad = "none"
  /\ peers = 0
  /\ peersClosed = FALSE
  /\ lastServed = "none"

LifeNext ==
  \/ DevServerConstructor
  \/ MiddlewareLoaded
  \/ MiddlewareLoadFailed
  \/ Start
  \/ StartupCompleted
  \/ StartFailed
  \/ WatcherSubscribed
  \/ ServerStarted
  \/ ServeRequest
  \/ HmrConnect
  \/ Stop
  \/ Unsubscribed
  \/ PeersClose
  \/ ListenerExit

\* ------------------------------------------------------------------------
\* Route tree builder
\* ------------------------------------------------------------------------

\* pageRouterConfig and apiRouterConfig of router/route-files.ts
pageRouterConfig ==
  <<[pattern |-> "page.tsx", property |-> "page", stacks |-> FALSE, accept |-> TRUE],
    [pattern |-> "layout.tsx", property |-> "layout", stacks |-> TRUE, accept |-> FALSE],
    [pattern |-> "guard.ts", property |-> "guards", stacks |-> TRUE, accept |-> FALSE],
    [pattern |-> "head.ts", property |-> "heads", stacks |-> TRUE, accept |-> FALSE],
    [pattern |-> "middleware.ts", property |-> "middleware", stacks |-> FALSE,
     accept |-> FALSE]>>

apiRouterConfig ==
  <<[pattern |-> "route.ts", property |-> "handler", stacks |-> FALSE, accept |-> TRUE],
    [pattern |-> "middleware.ts", property |-> "middleware", stacks |-> TRUE,
     accept |-> FALSE]>>

RouteConfigs == {"page", "api"}
configOf(name) == IF name = "page" THEN pageRouterConfig ELSE apiRouterConfig

\* The directories under the router's root, by their segments
RouteDirs == {<<>>, <<"dashboard">>, <<"dashboard", "[id]">>, <<"(admin)">>}

\* The files a directory may hold; notes.md matches no pattern
DiskFileNames(name) ==
  IF name = "page" THEN {"page.tsx", "layout.tsx", "middleware.ts"}
  ELSE {"route.ts", "middleware.ts", "notes.md"}

Unbuilt == <<>>

\* The reference to the file named pattern of the directory d
fileRef(d, pattern) == [dir |-> d, file |-> pattern]
NoRef == [dir |-> <<>>, file |-> ""]

entriesOf(config) == {config[i] : i \in 1..Len(config)}
stackRoles(config) == {e.property : e \in {e \in entriesOf(config) : e.stacks}}
scalarRoles(config) == {e.property : e \in {e \in entriesOf(config) : ~e.stacks}}
entryOf(config, role) == CHOOSE e \in entriesOf(config) : e.property = role

\* The files of the directory d appended to each stack role at its node
ownStacks(disk, config, d) ==
  [role \in stackRoles(config) |->
     IF entryOf(config, role).pattern \in disk[d]
     THEN <<fileRef(d, entryOf(config, role).pattern)>> ELSE <<>>]

\* The scalar names set at the node of the directory d
ownNames(disk, config, d) ==
  [role \in scalarRoles(config) |->
     IF entryOf(config, role).pattern \in disk[d]
     THEN fileRef(d, entryOf(config, role).pattern) ELSE NoRef]

\* only the node's own files kept
propagateNone(parentStacks, own) == own

\* child stacks become parent_stacks ++ child_stacks
propagate(parentStacks, own) ==
  [role \in DOMAIN own |-> parentStacks[role] \o own[role]]

childDirs(disk, d) == {c \in DOMAIN disk : Len(c) = Len(d) + 1 /\ IsPrefix(d, c)}

\* The nodes of the subtree of the directory d, each with its directory
RECURSIVE buildNode(_, _, _, _)
buildNode(disk, config, d, parentStacks) ==
  LET stacks == propagate(parentStacks, ownStacks(disk, config, d))
      node == [names |-> ownNames(disk, config, d),
               stacks |-> stacks,
               accept |-> \E e \in entriesOf(config) : e.accept /\ e.pattern \in disk[d]]
  IN {<<d, node>>} \cup
     UNION {buildNode(disk, config, c, stacks) : c \in childDirs(disk, d)}

\* buildRouter(dirPath, config, fileSystem)
buildRouter(disk, config) ==
  LET nodes == buildNode(disk, config, <<>>, [role \in stackRoles(config) |-> <<>>])
  IN [d \in DOMAIN disk |-> (CHOOSE n \in nodes : n[1] = d)[2]]

RouteInit ==
  /\ routeConfig \in RouteConfigs
  /\ routeDisk \in [RouteDirs -> SUBSET DiskFileNames(routeConfig)]
  /\ routeTree = Unbuilt

\* buildRouterIfExists: the tree is built from the directory
BuildRouter ==
  /\ routeTree = Unbuilt
  /\ routeTree' = buildRouter(routeDisk, configOf(routeConfig))
  /\ UNCHANGED <<routeConfig, routeDisk, guardVars, cacheVars, devVars, lifeVars, prodVars>>

\* a file is created or deleted in a directory and the tree built anew
RouteFileChanged ==
  /\ routeTree # Unbuilt
  /\ \E d \in RouteDirs, f \in DiskFileNames(routeConfig) :
       /\ routeDisk' = [routeDisk EXCEPT ![d] =
                          IF f \in @ THEN @ \ {f} ELSE @ \cup {f}]
       /\ routeTree' = buildRouter(routeDisk', configOf(routeConfig))
  /\ UNCHANGED <<routeConfig, guardVars, cacheVars, devVars, lifeVars, prodVars>>

RouteIdle ==
  /\ routeConfig = "page"
  /\ routeDisk = [d \in RouteDirs |-> {}]
  /\ routeTree = Unbuilt

RouteNext ==
  \/ BuildRouter
  \/ RouteFileChanged

\* ------------------------------------------------------------------------
\* Head descriptors (client/head.ts)
\* ------------------------------------------------------------------------

\* A title that is not set, and a list that is not set (undefined in the
\* source); Arr(s) is a list that is set
NoTitle == "<undefined>"
Undefined == [defined |-> FALSE, items |-> <<>>]
Arr(s) == [defined |-> TRUE, items |-> s]

MaxItems == 2

\* meta items: two descriptions that share a name, and a charset item that
\* has no name, property or httpEquiv
MetaDescriptionA == [name |-> "description", content |-> "a"]
MetaDescriptionB == [name |-> "description", content |-> "b"]
MetaCharset == [name |-> "", content |-> "utf-8"]
MetaItems == {MetaDescriptionA, MetaDescriptionB, MetaCharset}

LinkIcon == [rel |-> "icon", href |-> "/favicon.ico"]
ExtraItem == [tag |-> "base"]

SeqsUpTo(S, n) == UNION {[1..k -> S] : k \in 0..n}

HeadDefinitions ==
  [title : {NoTitle, "", "Home"},
   meta  : {Undefined} \cup {Arr(s) : s \in SeqsUpTo(MetaItems, MaxItems)},
   link  : {Undefined, Arr(<<LinkIcon>>)},
   extra : {Undefined, Arr(<<ExtraItem>>)}]

\* the descriptor {} of the source
EmptyHead == [title |-> NoTitle, meta |-> Undefined, link |-> Undefined, extra |-> Undefined]

\* the (a, b) => ... comparators mergeHead hands to mergeByKey; a string
\* is truthy in the source when it is not empty
same(kind, a, b) ==
  IF kind = "meta"
  THEN IF a.name # "" /\ b.name # "" THEN a.name = b.name ELSE FALSE
  ELSE a.rel = b.rel /\ a.href = b.href

\* result.findIndex((p) => same(p, c)): 0 stands for -1
findIndex(kind, result, c) ==
  IF \E i \in 1..Len(result) : same(kind, result[i], c)
  THEN CHOOSE i \in 1..Len(result) :
         /\ same(kind, result[i], c)
         /\ \A j \in 1..(i - 1) : ~same(kind, result[j], c)
  ELSE 0

RECURSIVE mergeLoop(_, _, _)
\* the for (const c of childArr) loop of mergeByKey
mergeLoop(kind, result, childArr) ==
  IF childArr = <<>> THEN result
  ELSE LET c == Head(childArr)
           idx == findIndex(kind, result, c)
       IN  mergeLoop(kind,
                     IF idx > 0 THEN [result EXCEPT ![idx] = c]
                                ELSE Append(result, c),
                     Tail(childArr))

mergeByKey(kind, parentArr, childArr) ==
  LET result == IF parentArr.defined THEN parentArr.items ELSE <<>>
  IN  Arr(IF childArr.defined THEN mergeLoop(kind, result, childArr.items) ELSE result)

truthy(str) == str # NoTitle /\ str # ""

mergeHead(parent, child) ==
  [title |-> IF truthy(child.title) THEN child.title
             ELSE IF truthy(parent.title) THEN parent.title
             ELSE NoTitle,
   meta  |-> mergeByKey("meta", parent.meta, child.meta),
   link  |-> mergeByKey("link", parent.link, child.link),
   extra |-> Arr((IF parent.extra.defined THEN parent.extra.items ELSE <<>>)
                 \o (IF child.extra.defined THEN child.extra.items ELSE <<>>))]

\* mergeHead has not been called: no descriptor carries this title
NotMerged == [title |-> "<not merged>", meta |-> Undefined, link |-> Undefined, extra |-> Undefined]

\* One side of every merge is a small descriptor; the other is any one
SmallHeads == {EmptyHead, [EmptyHead EXCEPT !.title = "Site", !.meta = Arr(<<MetaDescriptionA>>)]}

HeadInit ==
  /\ mergeParent \in HeadDefinitions \cup SmallHeads
  /\ mergeChild \in HeadDefinitions \cup SmallHeads
  /\ mergeParent \in SmallHeads \/ mergeChild \in SmallHeads
  /\ mergeResult = NotMerged

HeadIdle ==
  /\ mergeParent = EmptyHead
  /\ mergeChild = EmptyHead
  /\ mergeResult = NotMerged

MergeHead ==
  /\ mergeResult = NotMerged
  /\ mergeResult' = mergeHead(mergeParent, mergeChild)
  /\ UNCHANGED <<mergeParent, mergeChild>>
  /\ UNCHANGED <<guardVars, cacheVars, devVars, lifeVars, routeVars, buildVars, jobVars, assetVars, rpcVars, mockVars, histVars>>

HeadNext == MergeHead

\* ------------------------------------------------------------------------
\* Production build: page router, head stacks, generated backend
\* (compiler/prod/head-stacks.ts, compiler/prod/backend-program.ts)
\* ------------------------------------------------------------------------

\* The pages directory: the directories of the router and a static
\* directory named like the route group
ProdDirs == RouteDirs \cup {<<"admin">>}
ProdFileNames == {"page.tsx", "head.ts"}

\* relativePath.replace(/[^a-zA-Z0-9]/g, " ").split(" ").filter(Boolean)
\* of one path segment
wordsOf(segment) ==
  CASE segment = "dashboard" -> <<"dashboard">>
    [] segment = "[id]" -> <<"id">>
    [] segment = "(admin)" -> <<"admin">>
    [] segment = "admin" -> <<"admin">>
    [] segment = "head.ts" -> <<"head", "ts">>
    [] segment = "page.tsx" -> <<"page", "tsx">>
    [] segment = "layout.tsx" -> <<"layout", "tsx">>
    [] segment = "guard.ts" -> <<"guard", "ts">>
    [] segment = "middleware.ts" -> <<"middleware", "ts">>

\* word.charAt(0).toUpperCase() + word.slice(1)
capitalise(word) ==
  CASE word = "dashboard" -> "Dashboard"
    [] word = "id" -> "Id"
    [] word = "admin" -> "Admin"
    [] word = "head" -> "Head"
    [] word = "page" -> "Page"
    [] word = "layout" -> "Layout"
    [] word = "guard" -> "Guard"
    [] word = "middleware" -> "Middleware"
    [] word = "ts" -> "Ts"
    [] word = "tsx" -> "Tsx"

RECURSIVE Concat(_)
Concat(ss) == IF ss = <<>> THEN <<>> ELSE Head(ss) \o Concat(Tail(ss))

\* An identifier is the sequence of the capitalised words it is joined of
createComponentIdentifier(ref) ==
  LET segments == Append(ref.dir, ref.file)
      words == Concat([i \in 1..Len(segments) |-> wordsOf(segments[i])])
  IN [i \in 1..Len(words) |-> capitalise(words[i])]

\* componentifyRouter: every file of names and stacks becomes its identifier
componentifyRouter(router) ==
  [d \in DOMAIN router |->
     [names |-> [role \in DOMAIN router[d].names |->
                   IF router[d].names[role] = NoRef THEN <<>>
                   ELSE createComponentIdentifier(router[d].names[role])],
      stacks |-> [role \in DOMAIN router[d].stacks |->
                    [i \in 1..Len(router[d].stacks[role]) |->
                       createComponentIdentifier(router[d].stacks[role][i])]],
      accept |-> router[d].accept]]

\* traverse: the heads handed down to the node of d, followed by its own
RECURSIVE accumulatedHeads(_, _)
accumulatedHeads(router, d) ==
  IF d = <<>> THEN router[d].stacks.heads
  ELSE accumulatedHeads(router, SubSeq(d, 1, Len(d) - 1)) \o router[d].stacks.heads

\* routesToProcess
routesToProcess(router) == {d \in DOMAIN router : router[d].accept}

AlphaNumeric ==
  {"Dashboard", "Id", "Admin", "Head", "Page", "Layout", "Guard", "Middleware", "Ts", "Tsx"}

\* f.replace(/[^a-zA-Z0-9]/g, "_") of one piece of a name
sanitise(piece) == IF piece \in AlphaNumeric THEN piece ELSE "_"

RECURSIVE join(_)
\* headStack.map(sanitise).join("_")
join(stack) ==
  IF Len(stack) = 1 THEN [i \in 1..Len(stack[1]) |-> sanitise(stack[1][i])]
  ELSE [i \in 1..Len(stack[1]) |-> sanitise(stack[1][i])] \o <<"_">> \o join(Tail(stack))

stackKey(headStack) == IF Len(headStack) > 0 THEN join(headStack) ELSE <<"default">>

\* path.dirname(path.join(pagesDir, headFile)) + "/head.ts": the directory
\* part of a name without a separator is empty
headFileName(headFile) ==
  LET slashes == {i \in 1..Len(headFile) : headFile[i] = "/"}
      last == IF slashes = {} THEN 0 ELSE CHOOSE i \in slashes : \A j \in slashes : j <= i
  IN fileRef(SelectSeq(SubSeq(headFile, 1, last), LAMBDA x : x # "/"), "head.ts")

\* The default export of the head file of a directory
headModule(d) ==
  [title |-> IF d = <<>> THEN "" ELSE d[Len(d)],
   meta  |-> Arr(<<[name |-> "description", content |-> IF d = <<>> THEN "site" ELSE d[Len(d)]]>>),
   link  |-> Undefined,
   extra |-> Undefined]

defaultHead ==
  [title |-> "Peaque Framework Application",
   meta  |-> Arr(<<[name |-> "viewport", content |-> "width=device-width, initial-scale=1"],
                   [name |-> "description", content |-> "A Peaque Framework Application"]>>),
   link  |-> Arr(<<[rel |-> "stylesheet", href |-> "/assets/peaque.css"]>>),
   extra |-> Undefined]

\* loadModule(filename): resolves when the file exists, rejects otherwise
loads(disk, ref) == ref.dir \in DOMAIN disk /\ ref.file \in disk[ref.dir]

RECURSIVE mergeStack(_, _, _)
\* for (const headFile of route.headStack): head and the files merged into it
mergeStack(disk, acc, headStack) ==
  IF headStack = <<>> THEN acc
  ELSE LET filename == headFileName(Head(headStack))
       IN mergeStack(disk,
                     IF loads(disk, filename)
                     THEN [head |-> mergeHead(acc.head, headModule(filename.dir)),
                           merged |-> Append(acc.merged, filename)]
                     ELSE acc,
                     Tail(headStack))

\* The entry that headStacks.set(stackKey, ...) stores for a head stack
stackEntry(disk, headStack) ==
  LET done == mergeStack(disk, [head |-> defaultHead, merged |-> <<>>], headStack)
  IN [key |-> stackKey(headStack), headStack |-> headStack,
      html |-> done.head, merged |-> done.merged]

\* extractHeadStacks: routes with equal keys share the entry of the first
extractHeadStacks(router, disk) ==
  LET entries == {stackEntry(disk, accumulatedHeads(router, d)) : d \in routesToProcess(router)}
  IN IF entries = {} THEN {stackEntry(disk, <<>>)} ELSE entries

\* generatePageRouteRegistrations: the key whose index_<key> the GET
\* handler of each accept node sends
generatePageRouteRegistrations(router) ==
  [d \in routesToProcess(router) |-> stackKey(accumulatedHeads(router, d))]

MaxClock == 2
MaxGenerations == 2

\* new Date().toISOString().replace("T", " ").replace("Z", "").substring(0, 19):
\* the time cut to whole seconds
builtAt(t) == t \div 2

\* The text of the generated entry: the index_<key> constants, the GET
\* registrations and the "Server built on" line
generateBackendServerCode(router, stacks, t) ==
  [indexes |-> {[key |-> e.key, html |-> e.html] : e \in stacks},
   routes  |-> generatePageRouteRegistrations(router),
   builtOn |-> builtAt(t)]

NoRouter == <<>>

BuildInit ==
  /\ routeConfig = "page"
  /\ routeDisk \in [ProdDirs -> SUBSET ProdFileNames]
  /\ routeTree = Unbuilt
  /\ prodPc = "start"
  /\ prodRouter = NoRouter
  /\ headStacks = {}
  /\ registrations = <<>>
  /\ backendCode = <<>>
  /\ buildClock = 0

BuildIdle ==
  /\ prodPc = "idle"
  /\ prodRouter = NoRouter
  /\ headStacks = {}
  /\ registrations = <<>>
  /\ backendCode = <<>>
  /\ buildClock = 0

\* buildFrontendArtifacts: buildRouter(pagesDir, pageRouterConfig, fileSystem)
ProdBuildRouter ==
  /\ prodPc = "start"
  /\ routeTree' = buildRouter(routeDisk, pageRouterConfig)
  /\ prodPc' = "built"
  /\ UNCHANGED <<routeConfig, routeDisk, prodRouter, headStacks, registrations>>
  /\ UNCHANGED <<backendCode, buildClock>>
  /\ UNCHANGED <<guardVars, cacheVars, devVars, lifeVars, headVars, jobVars, assetVars, rpcVars, mockVars, histVars>>

\* buildFrontendArtifacts: componentifyRouter(router, pagesDir)
ComponentifyRouter ==
  /\ prodPc = "built"
  /\ prodRouter' = componentifyRouter(routeTree)
  /\ prodPc' = "componentified"
  /\ UNCHANGED <<routeVars, headStacks, registrations, backendCode, buildClock>>
  /\ UNCHANGED <<guardVars, cacheVars, devVars, lifeVars, headVars, jobVars, assetVars, rpcVars, mockVars, histVars>>

ExtractHeadStacks ==
  /\ prodPc = "componentified"
  /\ headStacks' = extractHeadStacks(prodRouter, routeDisk)
  /\ prodPc' = "extracted"
  /\ UNCHANGED <<routeVars, prodRouter, registrations, backendCode, buildClock>>
  /\ UNCHANGED <<guardVars, cacheVars, devVars, lifeVars, headVars, jobVars, assetVars, rpcVars, mockVars, histVars>>

\* writeBackendBundle: generateBackendServerCode(...); the generator can
\* be called again with the same arguments
GenerateBackendServerCode ==
  /\ prodPc \in {"extracted", "generated"}
  /\ Len(backendCode) < MaxGenerations
  /\ registrations' = generatePageRouteRegistrations(prodRouter)
  /\ backendCode' = Append(backendCode,
                           generateBackendServerCode(prodRouter, headStacks, buildClock))
  /\ prodPc' = "generated"
  /\ UNCHANGED <<routeVars, prodRouter, headStacks, buildClock>>
  /\ UNCHANGED <<guardVars, cacheVars, devVars, lifeVars, headVars, jobVars, assetVars, rpcVars, mockVars, histVars>>

\* Time passes between two calls of the generator
ClockAdvances ==
  /\ prodPc = "generated"
  /\ buildClock < MaxClock
  /\ buildClock' = buildClock + 1
  /\ UNCHANGED <<routeVars, prodPc, prodRouter, headStacks, registrations, backendCode>>
  /\ UNCHANGED <<guardVars, cacheVars, devVars, lifeVars, headVars, jobVars, assetVars, rpcVars, mockVars, histVars>>

BuildNext ==
  \/ ClockAdvances
  \/ ProdBuildRouter
  \/ ComponentifyRouter
  \/ ExtractHeadStacks
  \/ GenerateBackendServerCode

\* ------------------------------------------------------------------------
\* Jobs of the generated backend (compiler/prod/backend-program.ts,
\* buildJobsFunction)
\* ------------------------------------------------------------------------

MaxTicks == 3

\* One subscription per schedule string of each job
Subscriptions == {"cleanup", "backup"}

\* What a call of runJob does: return, throw, or return a promise that
\* is settled later (an async runJob)
RunOutcomes == {"returns", "throws", "promise"}

\* A promise is fulfilled or rejected when it settles
Settlements == {"fulfilled", "rejected"}

\* What a rejection nobody handles does to the process: the runtime
\* ends it, or (when told to only warn) lets it run on
RejectionModes == {"throw", "warn"}

JobsInit ==
  /\ jobsPc = "idle"
  /\ blocking = [s \in Subscriptions |-> FALSE]
  /\ unsettled = [s \in Subscriptions |-> 0]
  /\ ticks = 0
  /\ raised = {}
  /\ logged = {}

JobsIdle == JobsInit

\* startJobs(): new Cron(schedule, { protect: true }, callback) per schedule
StartJobs ==
  /\ jobsPc = "idle"
  /\ jobsPc' = "scheduled"
  /\ UNCHANGED <<blocking, unsettled, ticks, raised, logged>>
  /\ UNCHANGED <<guardVars, cacheVars, devVars, lifeVars, routeVars, headVars, buildVars, assetVars, rpcVars, mockVars, histVars>>

\* protect: true drops a tick while the callback of the subscription is
\* still running
protectDrops(s) == blocking[s]

\* The value of the callback () => { try { runJob() } catch ... }: its
\* body has no return, so the promise of runJob is not handed on
callbackResult(outcome) == "undefined"

\* The cron library waits for the callback only when it returns a promise
blockedAfter(result) == result = "promise"

\* A tick of the subscription s: the callback runs runJob() in its try
Tick(s, outcome) ==
  /\ jobsPc = "scheduled"
  /\ ticks < MaxTicks
  /\ ticks' = ticks + 1
  /\ IF protectDrops(s)
     THEN UNCHANGED <<blocking, unsettled, raised, logged>>
     ELSE /\ blocking' = [blocking EXCEPT ![s] = blockedAfter(callbackResult(outcome))]
          /\ unsettled' = [unsettled EXCEPT ![s] = IF outcome = "promise" THEN @ + 1 ELSE @]
          /\ raised' = IF outcome = "throws" THEN raised \cup {<<s, ticks', "thrown">>} ELSE raised
          /\ logged' = IF outcome = "throws" THEN logged \cup {<<s, ticks', "thrown">>} ELSE logged
  /\ UNCHANGED jobsPc
  /\ UNCHANGED <<guardVars, cacheVars, devVars, lifeVars, routeVars, headVars, buildVars, assetVars, rpcVars, mockVars, histVars>>

\* A promise of runJob settles; nothing awaits it or attached a catch
Settle(s, how, mode) ==
  /\ jobsPc = "scheduled"
  /\ unsettled[s] > 0
  /\ unsettled' = [unsettled EXCEPT ![s] = @ - 1]
  /\ raised' = IF how = "rejected" THEN raised \cup {<<s, ticks, "rejected">>} ELSE raised
  /\ jobsPc' = IF how = "rejected" /\ mode = "throw" THEN "dead" ELSE jobsPc
  /\ UNCHANGED <<blocking, ticks, logged>>
  /\ UNCHANGED <<guardVars, cacheVars, devVars, lifeVars, routeVars, headVars, buildVars, assetVars, rpcVars, mockVars, histVars>>

JobsNext ==
  \/ StartJobs
  \/ \E s \in Subscriptions, outcome \in RunOutcomes : Tick(s, outcome)
  \/ \E s \in Subscriptions, how \in Settlements, mode \in RejectionModes : Settle(s, how, mode)

\* ------------------------------------------------------------------------
\* Precompressed assets (assets/precompress-assets.ts)
\* ------------------------------------------------------------------------

MaxTime == 3

\* A path of the folder is a base name and what follows it: nothing,
\* ".gz" or ".br"
AssetBases == {"app.js", "logo.svg"}
AssetSuffixes == {"", ".gz", ".br"}
AssetPaths == AssetBases \X AssetSuffixes

NoAsset == [mtime |-> 0, content |-> "<no file>"]

\* file.endsWith('.gz') || file.endsWith('.br')
isCompressed(path) == path[2] # ""

\* getAllFiles(folderPath)
getAllFiles(d) == {path \in AssetPaths : d[path] # NoAsset}

\* stat(file + suffix) resolves with the mtime of the source file
upToDate(d, file, suffix) ==
  /\ d[<<file[1], suffix>>] # NoAsset
  /\ d[<<file[1], suffix>>].mtime = d[file].mtime

\* fileSystem.writeFile(path, content): the file is stamped with the clock
assetWriteFile(d, path, content, t) ==
  [d EXCEPT ![path] = [mtime |-> t, content |-> content]]

\* the mutation: the times of the written file are left as they are
utimesSkipped(d, path, mtime) == d

\* fileSystem.utimes(path, atime, mtime)
utimes(d, path, mtime) == [d EXCEPT ![path].mtime = mtime]

\* The suffixes of the siblings of a source file that a run writes
needed(d, file) == {suffix \in {".gz", ".br"} : ~upToDate(d, file, suffix)}

\* The body of the loop for one source file and one sibling
compress(d, file, suffix, t) ==
  IF suffix \in needed(d, file)
  THEN utimes(assetWriteFile(d, <<file[1], suffix>>, suffix, t), <<file[1], suffix>>, d[file].mtime)
  ELSE d

\* The folder after the loop over the files that are not compressed
precompressAssets(d, t) ==
  [path \in AssetPaths |->
     IF isCompressed(path) /\ <<path[1], "">> \in getAllFiles(d)
     THEN compress(d, <<path[1], "">>, path[2], t)[path]
     ELSE d[path]]

\* The paths a run writes
writesOf(d) ==
  {<<file[1], suffix>> : file \in {f \in getAllFiles(d) : ~isCompressed(f)},
                         suffix \in {".gz", ".br"}}
    \cap {path \in AssetPaths : path[2] \in needed(d, <<path[1], "">>)}

AssetInit ==
  /\ assets \in [AssetPaths -> {NoAsset, [mtime |-> 1, content |-> "old"],
                                [mtime |-> 2, content |-> "old"]}]
  /\ \A b \in AssetBases : assets[<<b, "">>].mtime # 2
  /\ now = 2
  /\ lastWrites = {}
  /\ quiet = FALSE
  /\ rerun = FALSE

\* No asset folder
AssetIdle ==
  /\ assets = <<>>
  /\ now = 2
  /\ lastWrites = {}
  /\ quiet = FALSE
  /\ rerun = FALSE

\* await precompressAssets(assetDir, fileSystem)
PrecompressAssets ==
  /\ assets' = precompressAssets(assets, now)
  /\ lastWrites' = writesOf(assets)
  /\ rerun' = quiet
  /\ quiet' = TRUE
  /\ UNCHANGED now
  /\ UNCHANGED <<guardVars, cacheVars, devVars, lifeVars, routeVars, headVars, buildVars, jobVars, rpcVars, mockVars, histVars>>

\* A build writes a source file anew: created or changed, stamped now
SourceWritten(b) ==
  /\ now < MaxTime
  /\ assets' = assetWriteFile(assets, <<b, "">>, "new", now)
  /\ now' = now + 1
  /\ quiet' = FALSE
  /\ UNCHANGED <<lastWrites, rerun>>
  /\ UNCHANGED <<guardVars, cacheVars, devVars, lifeVars, routeVars, headVars, buildVars, jobVars, rpcVars, mockVars, histVars>>

AssetNext ==
  \/ PrecompressAssets
  \/ \E b \in AssetBases : SourceWritten(b)

\* ------------------------------------------------------------------------
\* MockFileSystem (filesystem/mock-file-system.ts)
\* ------------------------------------------------------------------------

\* A normalised path is the sequence of its names; ROOT_PATH is <<>>
MockNames == {"a", "b"}
MaxDepth == 2
MockPaths == UNION {[1..k -> MockNames] : k \in 0..MaxDepth}

NoEntry == [type |-> "none", children |-> {}]
FileRecord == [type |-> "file", children |-> {}]
DirectoryRecord(children) == [type |-> "directory", children |-> children]

\* path.posix.dirname and path.posix.basename of a normalised path
dirname(p) == IF p = <<>> THEN <<>> ELSE SubSeq(p, 1, Len(p) - 1)
basename(p) == IF p = <<>> THEN "" ELSE p[Len(p)]

\* An operation returns the entries it leaves, or throws and leaves them
Thrown(e) == [ok |-> FALSE, entries |-> e]
Returned(e) == [ok |-> TRUE, entries |-> e]

\* parent.children.add(name) on the record stored at the parent path
addChild(e, parent, name) ==
  [e EXCEPT ![parent] = DirectoryRecord(@.children \cup {name})]

RECURSIVE ensureDirectory(_, _, _)
ensureDirectory(e, dirPath, recursive) ==
  IF e[dirPath] # NoEntry
  THEN IF e[dirPath].type # "directory" THEN Thrown(e) ELSE Returned(e)
  ELSE LET parentPath == dirname(dirPath)
           up == IF parentPath = dirPath THEN Returned(e)
                 ELSE IF e[parentPath] = NoEntry
                      THEN IF recursive THEN ensureDirectory(e, parentPath, TRUE)
                           ELSE Thrown(e)
                      ELSE IF e[parentPath].type # "directory" THEN Thrown(e)
                           ELSE Returned(e)
       IN IF ~up.ok THEN Thrown(e)
          ELSE LET made == [up.entries EXCEPT ![dirPath] = DirectoryRecord({})]
               IN Returned(IF dirPath # <<>>
                           THEN addChild(made, parentPath, basename(dirPath))
                           ELSE made)

mkdirSync(e, targetPath, recursive) == ensureDirectory(e, targetPath, recursive)

\* writeFileSync: the parent record is fetched before the entry is set,
\* and the name is added to that record
mockWriteFileSync(e, filePath) ==
  LET parentPath == dirname(filePath)
      ensured == ensureDirectory(e, parentPath, TRUE)
  IN IF ~ensured.ok THEN Thrown(e)
     ELSE LET set == [ensured.entries EXCEPT ![filePath] = FileRecord]
          IN Returned(IF filePath # parentPath
                      THEN addChild(set, parentPath, basename(filePath))
                      ELSE set)

unlinkSync(e, filePath) ==
  IF e[filePath] = NoEntry THEN Thrown(e)
  ELSE IF e[filePath].type = "directory" /\ e[filePath].children # {} THEN Thrown(e)
  ELSE LET gone == [e EXCEPT ![filePath] = NoEntry]
           parentPath == dirname(filePath)
       IN Returned(IF filePath # <<>> /\ gone[parentPath].type = "directory"
                   THEN [gone EXCEPT ![parentPath] =
                           DirectoryRecord(@.children \ {basename(filePath)})]
                   ELSE gone)

RECURSIVE copyChildren(_, _, _, _)
RECURSIVE copyRecursive(_, _, _, _)
\* for (const child of this.readdirEntriesSync(source)): names is what is
\* left of the listing taken before the loop
copyChildren(e, source, destination, names) ==
  IF names = {} THEN Returned(e)
  ELSE LET name == CHOOSE n \in names : \A other \in names : n = "a" \/ other # "a"
           one == IF e[Append(source, name)] = NoEntry THEN Thrown(e)
                  ELSE copyRecursive(e, Append(source, name), Append(destination, name), TRUE)
       IN IF ~one.ok THEN one
          ELSE copyChildren(one.entries, source, destination, names \ {name})

copyRecursive(e, source, destination, recursive) ==
  IF e[source] = NoEntry THEN Thrown(e)
  ELSE IF e[source].type = "file" THEN mockWriteFileSync(e, destination)
  ELSE IF ~recursive THEN Thrown(e)
  ELSE LET made == mkdirSync(e, destination, TRUE)
       IN IF ~made.ok THEN made
          ELSE copyChildren(made.entries, source, destination, made.entries[source].children)

\* new MockFileSystem()
MockInit == mockEntries = [p \in MockPaths |-> IF p = <<>> THEN DirectoryRecord({}) ELSE NoEntry]

\* No MockFileSystem has been constructed
MockIdle == mockEntries = <<>>

MockWriteFile ==
  \E p \in MockPaths :
    /\ mockEntries' = mockWriteFileSync(mockEntries, p).entries
    /\ UNCHANGED <<guardVars, cacheVars, devVars, lifeVars, routeVars>>
    /\ UNCHANGED <<headVars, buildVars, jobVars, assetVars, rpcVars, histVars>>

MockMkdir ==
  \E p \in MockPaths, recursive \in BOOLEAN :
    /\ mockEntries' = mkdirSync(mockEntries, p, recursive).entries
    /\ UNCHANGED <<guardVars, cacheVars, devVars, lifeVars, routeVars>>
    /\ UNCHANGED <<headVars, buildVars, jobVars, assetVars, rpcVars, histVars>>

MockUnlink ==
  \E p \in MockPaths :
    /\ mockEntries' = unlinkSync(mockEntries, p).entries
    /\ UNCHANGED <<guardVars, cacheVars, devVars, lifeVars, routeVars>>
    /\ UNCHANGED <<headVars, buildVars, jobVars, assetVars, rpcVars, histVars>>

\* copy(source, destination, options); a directory is copied to a path
\* of its own depth, so that the copy stays within the paths of the model
MockCopy ==
  \E source \in MockPaths, destination \in MockPaths, recursive \in BOOLEAN :
    /\ mockEntries[source].type = "directory" => Len(destination) = Len(source)
    /\ mockEntries' = copyRecursive(mockEntries, source, destination, recursive).entries
    /\ UNCHANGED <<guardVars, cacheVars, devVars, lifeVars, routeVars>>
    /\ UNCHANGED <<headVars, buildVars, jobVars, assetVars, rpcVars, histVars>>

MockNext ==
  \/ MockWriteFile
  \/ MockMkdir
  \/ MockUnlink
  \/ MockCopy

RpcIdle == rpcVerdict = NoVerdict

HistIdle == fileOrigin = NoOrigin

\* Every production subsystem but the history of the cache at rest
ProdQuiet == HeadIdle /\ BuildIdle /\ JobsIdle /\ AssetIdle /\ RpcIdle /\ MockIdle

ProdIdle == ProdQuiet /\ HistIdle

\* ------------------------------------------------------------------------
\* Specifications
\* ------------------------------------------------------------------------

\* The cache of a process that never constructs one
CacheIdle ==
  /\ cacheVersion = DevServerCacheVersion
  /\ constructed = FALSE
  /\ metadataCache = EmptyMetadata
  /\ dir = EmptyDir
  /\ indexJson = IndexAbsent
  /\ calls = [c \in Callers |-> IdleCall]
  /\ lastOp = NoOp
  /\ ops = 0

InitGuard == GuardInit /\ CacheIdle /\ DevIdle /\ LifeIdle /\ RouteIdle /\ ProdIdle
SpecGuard == InitGuard /\ [][GuardNext]_vars

\* The history agrees with the directory the process starts from
HistInit == fileOrigin = IF dir = PersistedDir THEN PersistedOrigin ELSE NoOrigin

InitCache == GuardInit /\ CacheInit /\ DevIdle /\ LifeIdle /\ RouteIdle /\ ProdQuiet /\ HistInit
SpecCache == InitCache /\ [][CacheNext]_vars

InitDev == GuardInit /\ CacheIdle /\ DevInit /\ LifeIdle /\ RouteIdle /\ ProdIdle
SpecDev == InitDev /\ [][DevNext]_vars

InitLife ==
  /\ GuardInit
  /\ CacheIdle
  /\ watcherKind \in WatcherKinds
  /\ DevQuiet
  /\ LifeInit
  /\ RouteIdle
  /\ ProdIdle
SpecLife == InitLife /\ [][LifeNext]_vars

InitRoute == GuardInit /\ CacheIdle /\ DevIdle /\ LifeIdle /\ RouteInit /\ ProdIdle
SpecRoute == InitRoute /\ [][RouteNext]_vars

InitHead == GuardInit /\ CacheIdle /\ DevIdle /\ LifeIdle /\ RouteIdle /\ HeadInit /\ BuildIdle /\ JobsIdle /\ AssetIdle /\ RpcIdle /\ MockIdle /\ HistIdle

SpecHead == InitHead /\ [][HeadNext]_vars

InitBuild == GuardInit /\ CacheIdle /\ DevIdle /\ LifeIdle /\ BuildInit /\ HeadIdle /\ JobsIdle /\ AssetIdle /\ RpcIdle /\ MockIdle /\ HistIdle

SpecBuild == InitBuild /\ [][BuildNext]_vars

InitJobs == GuardInit /\ CacheIdle /\ DevIdle /\ LifeIdle /\ RouteIdle /\ HeadIdle /\ BuildIdle /\ JobsInit /\ AssetIdle /\ RpcIdle /\ MockIdle /\ HistIdle

SpecJobs == InitJobs /\ [][JobsNext]_vars

InitAsset == GuardInit /\ CacheIdle /\ DevIdle /\ LifeIdle /\ RouteIdle /\ HeadIdle /\ BuildIdle /\ JobsIdle /\ AssetInit /\ RpcIdle /\ MockIdle /\ HistIdle

SpecAsset == InitAsset /\ [][AssetNext]_vars

InitMock == GuardInit /\ CacheIdle /\ DevIdle /\ LifeIdle /\ RouteIdle /\ HeadIdle /\ BuildIdle /\ JobsIdle /\ AssetIdle /\ RpcIdle /\ MockInit /\ HistIdle

SpecMock == InitMock /\ [][MockNext]_vars

\* ------------------------------------------------------------------------
\* C3: a request with an unsafe method whose Sec-Fetch-Site is non-empty
\* and neither same-origin nor none, and which matches no bypass pattern
\* and no trusted origin, gets 403 with the body
\* {error: "Forbidden: Cross-origin request rejected"}, and next is never
\* called.
\* ------------------------------------------------------------------------
C3_Case ==
  /\ gReq # NoReq
  /\ gReq.method \notin SafeMethods
  /\ gReq.secFetchSite \notin {NoHeader, "", "same-origin", "none"}
  /\ ~ \E pattern \in bypassPatterns : PatternTest(pattern, gReq.path)
  /\ gReq.origin \notin trustedOrigins

C3_CrossSiteDenied ==
  C3_Case => /\ gCode = 403
             /\ gBody = ForbiddenCrossOrigin
             /\ gNextCalls = 0

C3_Witness ==
  /\ C3_Case
  /\ gReq.secFetchSite = "cross-site"
  /\ gReq.method = "POST"
  /\ gCode = 403

\* ------------------------------------------------------------------------
\* C5: two cacheByHash calls for the same key that both miss are serialized:
\* the producer for a key never runs twice at the same time.
\* ------------------------------------------------------------------------
C5_ProducersSerialized ==
  \A c1, c2 \in Callers :
    (c1 # c2 /\ calls[c1].pc = "producing" /\ calls[c2].pc = "producing")
      => calls[c1].key # calls[c2].key

\* ------------------------------------------------------------------------
\* C6: two successive calls cacheByHash(k, h, P), nothing between them,
\* invoke P at most once in total, and the second returns the stored value.
\* ------------------------------------------------------------------------
C6_Successive == lastOp.op = "return" /\ lastOp.succSame

C7_Rehash == lastOp.op = "return" /\ isStale(lastOp.metaAtStart, lastOp.hash)

C8_Mismatch == lastOp.op = "construct" /\ lastOp.mismatch

\* C8 as stated
C8_DirectoryEmpty ==
  C8_Mismatch => /\ \A n \in DirNames : dir[n] = Absent
                 /\ indexJson.state = "absent"
                 /\ metadataCache = EmptyMetadata

\* C8 as amended: every regular file is removed, except those whose unlink
\* fails and all of them when the directory cannot be listed; subdirectories
\* stay.
C8_FilesRemoved ==
  C8_Mismatch => /\ metadataCache = EmptyMetadata
                 /\ ~lastOp.listFailed =>
                      /\ \A n \in DirNames : isFile(dir, n) => n \in lastOp.failed
                      /\ ~lastOp.indexKept => indexJson.state = "absent"

C8_Witness ==
  /\ C8_Mismatch
  /\ ~lastOp.listFailed
  /\ lastOp.failed = {}
  /\ ~lastOp.indexKept
  /\ dir[SubDir] = Directory
  /\ \A n \in DirNames \ {SubDir} : dir[n] = Absent
  /\ indexJson.state = "absent"

\* ------------------------------------------------------------------------
\* C1: a request to /api/__rpc/<module>/<fn> that the cross-origin guard
\* denies is answered 403 with the body
\* {error: "Forbidden: Cross-origin request rejected"} before any work: the
\* module is not loaded, the body is not decoded and the function is never
\* invoked.
\* ------------------------------------------------------------------------
C1_DeniedBeforeAnyWork ==
  LET r == inflight IN
      (r.pc # "idle" /\ underPrefix(r.req.path, RpcPrefix) /\ ~checkCsrfProtection(r.req)) =>
        /\ ~r.loaded
        /\ ~r.decoded
        /\ ~r.invoked
        /\ r.pc = "done"
        /\ r.code = 403
        /\ r.body = ForbiddenCrossOrigin

\* ------------------------------------------------------------------------
\* C2: the dev dispatcher runs a server action only for POST: a request to
\* /api/__rpc/<module>/<fn> with any other method never makes the target
\* function run.
\* ------------------------------------------------------------------------
C2_InvokedOnlyByPost ==
  LET r == inflight IN
      (underPrefix(r.req.path, RpcPrefix) /\ r.invoked) => r.req.method = "POST"

\* ------------------------------------------------------------------------
\* C4: a request is served against one version of the page-route state and
\* of the API route tree, the one current when requestHandler took it: a
\* replacement by the watcher while the request is suspended is never seen.
\* ------------------------------------------------------------------------
C4_SingleVersion ==
  LET r == inflight IN
      r.pc # "idle" => /\ r.seenFront \subseteq {r.startFront}
                       /\ r.seenBack \subseteq {r.startBack}

\* an API request that resumed after the watcher had replaced the route tree
C4_Witness ==
  LET r == inflight IN
      /\ r.pc = "done"
      /\ r.invoked
      /\ underPrefix(r.req.path, ApiPrefix)
      /\ r.resolvedAt # r.startBack
      /\ r.seenBack = {r.startBack}

\* ------------------------------------------------------------------------
\* C9: for every create or delete event on a path under src/pages/, whatever
\* the extension, the page router is rebuilt and then the frame
\* {event: "change", path: "/peaque.js"} is broadcast, the rebuilt router
\* being in place when it is sent.
\* ------------------------------------------------------------------------
C9_RebuildThenChangeFrame ==
  \A i \in 1..Len(delivered) :
    LET d == delivered[i] IN
      (startsWith(d.path, SrcPages) /\ d.type \in {"create", "delete"}) =>
        \E j \in 1..Len(hmrFrames) :
          /\ hmrFrames[j].cause = d.seq
          /\ hmrFrames[j].event = "change"
          /\ hmrFrames[j].path = PeaqueJs
          /\ hmrFrames[j].routerVer = d.verBefore + 1

\* ------------------------------------------------------------------------
\* C10: one update event for an existing .tsx page file under src/pages
\* makes exactly one HMR frame, whose path is the file's project-relative
\* path without its .tsx extension.
\* ------------------------------------------------------------------------
C10_OneFrameWithoutExtension ==
  \A i \in 1..Len(delivered) :
    LET d == delivered[i]
        sent == {j \in 1..Len(hmrFrames) : hmrFrames[j].cause = d.seq}
    IN
      (d.type = "update" /\ startsWith(d.path, SrcPages) /\ endsWith(d.path, Tsx)) =>
        /\ Cardinality(sent) = 1
        /\ \A j \in sent : hmrFrames[j].path = SubSeq(d.path, 1, Len(d.path) - 1)

\* ------------------------------------------------------------------------
\* C11 as stated: the listener is bound only after src/startup.ts (if
\* present) has run to completion, the jobs runner has been started, both
\* routers have been built and the filesystem watcher has been subscribed.
\* A project without a src directory has nothing watched, and its listener
\* is bound all the same.
\* ------------------------------------------------------------------------
C11_StartupJobsRouters ==
  /\ startupExists => startupDone
  /\ jobsState = "started"
  /\ routersBuilt

C11_BoundAfterWatcher ==
  listenerState = "accepting" =>
    C11_StartupJobsRouters /\ watcherState = "subscribed"

\* C11: the listener is bound, and so a first request handled, only after
\* src/startup.ts (if present) has run to completion, the jobs runner has
\* been started, both routers have been built and, when the project has a
\* src directory, the filesystem watcher has been subscribed.
C11_BoundAfterSetup ==
  /\ listenerState = "accepting" =>
       C11_StartupJobsRouters /\ (srcExists => watcherState = "subscribed")
  /\ lastServed # "none" =>
       /\ startupExists => startupDone
       /\ routersBuilt
       /\ jobsState # "idle"
       /\ srcExists => watcherState # "none"

C11_Witness ==
  /\ listenerState = "accepting"
  /\ lastServed # "none"
  /\ startupExists
  /\ srcExists
  /\ watcherKind = "parcel"

\* ------------------------------------------------------------------------
\* C12: when src/middleware.ts exists, every request the dev server handles
\* passes through the global middleware; none is handled with the global
\* middleware not yet hooked.
\* ------------------------------------------------------------------------
C12_EveryRequestThroughMiddleware ==
  (middlewareExists /\ lastServed # "none") => lastServed = "middleware chain"

C14_FamilyOrder ==
  <<"/@deps/", "/@src/", "/api/__rpc/", "/api/", "runtime asset", "/hmr",
    "public asset", "SPA shell">>

C14_Matches(f, path) ==
  CASE f = "/@deps/" -> underPrefix(path, DepsPrefix)
    [] f = "/@src/" -> underPrefix(path, SrcPrefix)
    [] f = "/api/__rpc/" -> underPrefix(path, RpcPrefix)
    [] f = "/api/" -> underPrefix(path, ApiPrefix)
    [] f = "runtime asset" ->
         path \in {PeaqueDevJsPath, PeaqueLoaderJsPath, PeaqueJsPath, PeaqueCssPath}
    [] f = "/hmr" -> path = HmrPath
    [] f = "public asset" -> path \in PublicAssets
    [] OTHER -> TRUE

C14_FirstMatching(path) ==
  LET i == CHOOSE i \in 1..Len(C14_FamilyOrder) :
             /\ C14_Matches(C14_FamilyOrder[i], path)
             /\ \A j \in 1..(i - 1) : ~C14_Matches(C14_FamilyOrder[j], path)
  IN C14_FamilyOrder[i]

C14_OneFamilyFirstMatch ==
  inflight.pc # "idle" =>
    /\ inflight.families = {C14_FirstMatching(inflight.req.path)}
    /\ underPrefix(inflight.req.path, RpcPrefix) =>
         /\ "/api/" \notin inflight.families
         /\ inflight.seenBack = {}
         /\ inflight.matchResult = NoMatch

C14_Witness ==
  /\ inflight.pc = "rpcCall"
  /\ inflight.req.path = RpcMFPath
  /\ inflight.families = {"/api/__rpc/"}

\* ------------------------------------------------------------------------
\* C15 as stated: for a /@src/<p> request any candidate escaping the project
\* root yields 403, and 404 is returned when no candidate matches a regular
\* file. serveSourceModule skips a candidate outside the root and goes on
\* to the next; with none left it answers 404.
\* ------------------------------------------------------------------------
C15_Escapes(path) ==
  \E i \in 1..Len(Extensions) :
    ~IsPrefix(ProjectRoot, candidate(path, Extensions[i]).segments)

C15_SrcDone ==
  /\ inflight.pc = "done"
  /\ underPrefix(inflight.req.path, SrcPrefix)

C15_Served(r, disk) ==
  /\ r.pc = "done"
  /\ r.code \in {200, 404}
  /\ r.code = 200 =>
       /\ r.served \in disk
       /\ ~C15_Escapes(r.req.path)
  /\ r.code = 404 => r.body = "File not found" /\ r.served = NoFile
  /\ C15_Escapes(r.req.path) => r.code = 404
  /\ (\A i \in 1..Len(Extensions) :
        LET c == candidate(r.req.path, Extensions[i])
        IN ~(IsPrefix(ProjectRoot, c.segments) /\ isRegularFile(c, disk)))
       => r.code = 404

C16_NoHandlerCase ==
  /\ inflight.pc = "done"
  /\ "/api/" \in inflight.families
  /\ inflight.matchResult.found
  /\ inflight.req.method \notin RouteMethods

C16_NoHandler4xx ==
  C16_NoHandlerCase => inflight.code \in 400..499

\* C16: when an /api/ request matches a route whose handler module has no
\* function export for the request's method, the dev server responds with
\* status 500 and the body "No handler for this method", and no handler is
\* invoked.
C16_NoHandler500 ==
  C16_NoHandlerCase =>
    /\ inflight.code = 500
    /\ inflight.body = "No handler for this method"
    /\ ~inflight.invoked

C16_Witness ==
  /\ C16_NoHandlerCase
  /\ inflight.loaded
  /\ inflight.req.method = "OPTIONS"
  /\ inflight.req.path = ApiAPath

\* ------------------------------------------------------------------------
\* C17: if the invoked server-action function throws or its promise
\* rejects, the response has status 500 and the error's message as its
\* body.
\* ------------------------------------------------------------------------
C17_ThrowIs500 ==
  (inflight.thrown # NoBody /\ "/api/__rpc/" \in inflight.families) =>
    /\ inflight.pc = "done"
    /\ inflight.code = 500
    /\ inflight.body = inflight.thrown

C17_Witness ==
  /\ inflight.invoked
  /\ inflight.thrown \in ErrorMessages
  /\ inflight.req.path = RpcMFPath
  /\ inflight.code = 500

C19_Fault ==
  /\ lastOp.op \in {"return", "throw"}
  /\ \/ lastOp.existsFailed
     \/ lastOp.readFailed
     \/ lastOp.writeFailed
     \/ lastOp.unlinkFailed
     \/ lastOp.saveFailed

C20_OwnFiles(d, role) ==
  LET pattern == entryOf(configOf(routeConfig), role).pattern
  IN IF pattern \in routeDisk[d] THEN <<fileRef(d, pattern)>> ELSE <<>>

\* The own files of the first k segments' directories, root first
RECURSIVE C20_RootToLeaf(_, _, _)
C20_RootToLeaf(d, role, k) ==
  IF k < 0 THEN <<>>
  ELSE C20_RootToLeaf(d, role, k - 1) \o C20_OwnFiles(SubSeq(d, 1, k), role)

C20_StacksInherited ==
  routeTree # Unbuilt =>
    \A d \in RouteDirs :
      /\ \A role \in stackRoles(configOf(routeConfig)) :
           routeTree[d].stacks[role] = C20_RootToLeaf(d, role, Len(d))
      /\ \A role \in scalarRoles(configOf(routeConfig)) :
           /\ routeTree[d].names[role] \in
                {NoRef, fileRef(d, entryOf(configOf(routeConfig), role).pattern)}
           /\ routeTree[d].names[role] # NoRef =>
                entryOf(configOf(routeConfig), role).pattern \in routeDisk[d]

C20_Witness ==
  /\ routeTree # Unbuilt
  /\ routeConfig = "page"
  /\ Len(routeTree[<<"dashboard", "[id]">>].stacks["layout"]) = 3
  /\ routeTree[<<"(admin)">>].stacks["layout"] = <<fileRef(<<>>, "layout.tsx")>>
  /\ routeTree[<<>>].names["middleware"] # NoRef
  /\ routeTree[<<"dashboard">>].names["middleware"] = NoRef

\* ------------------------------------------------------------------------
\* C22: the empty head descriptor is a two-sided identity of mergeHead:
\* mergeHead(empty, x) = x and mergeHead(x, empty) = x for every head
\* descriptor x. Descriptors are compared by what they describe: a list
\* that is not set describes the same head as an empty list, and a title
\* that is not set the same head as an empty title.
\* ------------------------------------------------------------------------
describes(h) ==
  [title |-> IF truthy(h.title) THEN h.title ELSE NoTitle,
   meta  |-> h.meta.items,
   link  |-> h.link.items,
   extra |-> h.extra.items]

C22_RightIdentity ==
  (mergeResult # NotMerged /\ mergeChild = EmptyHead)
    => describes(mergeResult) = describes(mergeParent)

C22_LeftIdentity ==
  (mergeResult # NotMerged /\ mergeParent = EmptyHead)
    => describes(mergeResult) = describes(mergeChild)

C22_TwoSidedIdentity == C22_LeftIdentity /\ C22_RightIdentity

\* ------------------------------------------------------------------------
\* C21: for every accept page route, the head stack that the production
\* builder merges and keys is the sequence of the head files from the
\* root to the route's node, each file once and in root-to-leaf order,
\* merged in that order on top of the default descriptor.
\* ------------------------------------------------------------------------
RECURSIVE rootToLeafHeads(_, _)
\* the head files on the way from the root to the directory d
rootToLeafHeads(disk, d) ==
  (IF d = <<>> THEN <<>> ELSE rootToLeafHeads(disk, SubSeq(d, 1, Len(d) - 1)))
    \o (IF "head.ts" \in disk[d] THEN <<fileRef(d, "head.ts")>> ELSE <<>>)

RECURSIVE mergeAll(_, _)
mergeAll(head, headFiles) ==
  IF headFiles = <<>> THEN head
  ELSE mergeAll(mergeHead(head, headModule(Head(headFiles).dir)), Tail(headFiles))

C21_EntryOf(d) == CHOOSE e \in headStacks : e.key = registrations[d]

C21_HeadStackRootToLeaf ==
  prodPc = "generated" =>
    \A d \in DOMAIN registrations :
      LET headFiles == rootToLeafHeads(routeDisk, d)
          e == C21_EntryOf(d)
      IN /\ e.headStack = [i \in 1..Len(headFiles) |-> createComponentIdentifier(headFiles[i])]
         /\ e.merged = headFiles
         /\ e.html = mergeAll(defaultHead, headFiles)

\* ------------------------------------------------------------------------
\* C30: distinct head stacks get distinct stack keys: two page routes
\* whose head-file sequences differ are never assigned the same key, so
\* the GET handler generated for a route sends the HTML of its own stack.
\* ------------------------------------------------------------------------
C30_DistinctStacksDistinctKeys ==
  prodPc = "generated" =>
    \A d1, d2 \in DOMAIN registrations :
      rootToLeafHeads(routeDisk, d1) # rootToLeafHeads(routeDisk, d2)
        => registrations[d1] # registrations[d2]

\* ------------------------------------------------------------------------
\* C23: a tick that fires while the previous invocation of the job's
\* runJob is still running (its promise not yet settled) is dropped, so
\* two executions of the same subscription never overlap.
\* ------------------------------------------------------------------------
C23_NoOverlap == \A s \in Subscriptions : unsettled[s] <= 1

\* ------------------------------------------------------------------------
\* C24: an exception raised by runJob, thrown synchronously or delivered
\* as a rejected promise, is caught and logged with the job's display
\* name, and the scheduler and its subscriptions keep running.
\* ------------------------------------------------------------------------
C24_CaughtLoggedRunning == raised \subseteq logged /\ jobsPc # "dead"

\* ------------------------------------------------------------------------
\* C25: precompressAssets is idempotent: after a run every file not
\* ending in .gz or .br has .gz and .br siblings whose mtime equals the
\* mtime of the source file, and a second run with no source file changed
\* writes no file.
\* ------------------------------------------------------------------------
C25_SiblingsStamped ==
  quiet =>
    \A file \in getAllFiles(assets) :
      ~isCompressed(file) =>
        \A suffix \in {".gz", ".br"} :
          /\ assets[<<file[1], suffix>>] # NoAsset
          /\ assets[<<file[1], suffix>>].mtime = assets[file].mtime

C25_SecondRunWritesNothing == (quiet /\ rerun) => lastWrites = {}

C25_Idempotent == C25_SiblingsStamped /\ C25_SecondRunWritesNothing

\* a second run over a folder whose first run wrote siblings of a source
\* stamped earlier than the clock
C25_Witness ==
  /\ quiet /\ rerun
  /\ assets[<<"app.js", "">>].mtime = 1
  /\ assets[<<"app.js", ".gz">>].content = ".gz"
  /\ assets[<<"logo.svg", "">>].mtime = 2
  /\ assets[<<"logo.svg", ".br">>].content = ".br"

\* ------------------------------------------------------------------------
\* C26: the generated backend entry is deterministic: two calls of
\* generateBackendServerCode with identical inputs return identical text.
\* ------------------------------------------------------------------------
C26_Deterministic ==
  Len(backendCode) = 2 => backendCode[1] = backendCode[2]

\* ------------------------------------------------------------------------
\* C27: checkCsrfProtection(req) is true exactly when the
\* CrossOriginProtection middleware with no trusted origins and no bypass
\* patterns calls next for the same request, and false exactly when that
\* middleware responds 403.
\* ------------------------------------------------------------------------
C27_Unconfigured == gReq # NoReq /\ trustedOrigins = {} /\ bypassPatterns = {}

C27_HelperAgreesWithMiddleware ==
  C27_Unconfigured =>
    /\ rpcVerdict.called <=> (gNextCalls = 1 /\ gCode = 0)
    /\ ~rpcVerdict.called <=> (gCode = 403 /\ gNextCalls = 0)
    /\ rpcVerdict.called = checkCsrfProtection(gReq)

\* a same-site POST is rejected by both
C27_Witness ==
  /\ C27_Unconfigured
  /\ gReq.method = "POST"
  /\ gReq.secFetchSite = "same-site"
  /\ gCode = 403
  /\ ~rpcVerdict.called

\* ------------------------------------------------------------------------
\* C29: in MockFileSystem, after any sequence of writeFile, mkdir, unlink
\* and copy operations the entry map is a consistent tree: every name in
\* a directory's children set has an entry at that child path, and every
\* non-root entry's parent path is an existing directory whose children
\* set lists it.
\* ------------------------------------------------------------------------
C29_ChildrenHaveEntries ==
  \A p \in MockPaths :
    mockEntries[p].type = "directory" =>
      \A name \in mockEntries[p].children :
        Append(p, name) \in MockPaths /\ mockEntries[Append(p, name)] # NoEntry

C29_ParentsListEntries ==
  \A p \in MockPaths \ {<<>>} :
    mockEntries[p] # NoEntry =>
      /\ mockEntries[dirname(p)].type = "directory"
      /\ basename(p) \in mockEntries[dirname(p)].children

C29_ConsistentTree == C29_ChildrenHaveEntries /\ C29_ParentsListEntries

\* ------------------------------------------------------------------------
\* C28: a DiskCache hit for (k, h) returns the value most recently
\* produced for the same key k under hash h, never a value produced for a
\* different key, even when two keys sanitize to the same file-name stem
\* and their hashes agree on the first 12 characters.
\* ------------------------------------------------------------------------
C28_Hit == lastOp.op = "return" /\ lastOp.runs = 0

C28_HitReturnsOwnValue ==
  C28_Hit => fileOrigin[getCacheFilePath(lastOp.key, lastOp.hash)] = lastOp.key

============================================================================
